---- MODULE Spec2Model ----
(***************************************************************************)
(* Model of the CPT format conversion engine (GEF <-> BRO/IMBRO XML) of    *)
(* viktor-platform/cpt-interpreter.                                        *)
(*                                                                         *)
(* Conventions                                                             *)
(*  - A text is a sequence of tokens (strings): separators such as "," and *)
(*    ";" are tokens of their own, a numeral such as "0.5" is one token.   *)
(*  - Python None is the empty sequence << >> where the value is optional  *)
(*    (Some(v) is <<v>>), and the reserved string None where the value is  *)
(*    a text used as a dictionary key.                                     *)
(*  - A float is an integer counting thousandths.                          *)
(*  - A camelCase identifier is the sequence of its segments, cut at each  *)
(*    lower-case/upper-case boundary: coneResistance is                    *)
(*    <<"cone", "Resistance">>.                                            *)
(***************************************************************************)
EXTENDS Integers, Sequences, FiniteSets, TLC

VARIABLES
    pc,             \* position of the call in progress
    zid_codes,      \* file_conversion.zid_codes (defaultdict, module level)
    xyid_codes,     \* file_conversion.xyid_codes
    stop_criteria,  \* file_conversion.stop_criteria
    cpt_method,     \* file_conversion.cpt_method
    xml_src,        \* the rows the XML numeric block was written from
    xml_doc,        \* the flattened XML document handed to the XML mappers
    gef_out,        \* outcome of IMBROFile.convert_to_gef_file_content
    cpt_out,        \* outcome of convert_xml_dict_to_cpt_dict
    skeleton,       \* the XML skeleton handed to _parse_xml_template
    tpl_data,       \* the data object handed to _reformat_using_template
    tpl_out,        \* outcome of parsing, filling and building
    cpt_record,     \* the parsed CPT record of a GEFFile
    imbro_out,      \* outcome of GEFFile.convert_to_imbro_file_content
    parsed,         \* the dictionary IMBROFile reads from the XML produced
    xml_tree,       \* the element tree handed to _parse_xml_to_dict_recursively
    memo,           \* the results kept by @memoize for get_cpt_file_content
    calls,          \* number of calls of get_cpt_file_content made
    facade_out,     \* outcome of the last call of get_cpt_file_content
    cpt_params,     \* the params dictionary as it was when CPT received it
    raw_dict        \* the dictionary filter_nones_from_params_dict works on

vars == <<pc, zid_codes, xyid_codes, stop_criteria, cpt_method,
          xml_src, xml_doc, gef_out, cpt_out, skeleton, tpl_data, tpl_out,
          cpt_record, imbro_out, parsed, xml_tree, memo, calls, facade_out,
          cpt_params, raw_dict>>

filter_vars == <<cpt_params, raw_dict>>

gef_vars == <<cpt_record, imbro_out, parsed, xml_tree>>

facade_vars == <<memo, calls, facade_out>>

xml_vars == <<xml_src, xml_doc, gef_out, cpt_out>>

table_vars == <<zid_codes, xyid_codes, stop_criteria, cpt_method>>

tpl_vars == <<skeleton, tpl_data, tpl_out>>

-----------------------------------------------------------------------------
(* Bounds of the model *)

MaxRows == 2

-----------------------------------------------------------------------------
(* Generic helpers *)

None == "<None>"

NoValue == << >>

Some(v) == <<v>>

Range(s) == {s[i] : i \in 1..Len(s)}

SeqUpTo(S, n) == UNION {[1..k -> S] : k \in 0..n}

RECURSIVE Concat(_)
\* the concatenation of a sequence of texts
Concat(ss) == IF ss = << >> THEN << >> ELSE Head(ss) \o Concat(Tail(ss))

RECURSIVE Join(_, _)
\* sep.join(parts), parts and result being texts
Join(parts, sep) ==
    IF parts = << >> THEN << >>
    ELSE IF Len(parts) = 1 THEN Head(parts)
    ELSE Head(parts) \o <<sep>> \o Join(Tail(parts), sep)

\* no sep in text
Unbroken(text, sep) == \A i \in 1..Len(text) : text[i] # sep

\* the place of the first sep of text
FirstAt(text, sep) ==
    CHOOSE i \in 1..Len(text) :
        text[i] = sep /\ \A j \in 1..(i - 1) : text[j] # sep

RECURSIVE Split(_, _)
\* str.split(sep): the segment in front of the first sep, then the
\* segments of the rest
Split(text, sep) ==
    IF Unbroken(text, sep) THEN <<text>>
    ELSE <<SubSeq(text, 1, FirstAt(text, sep) - 1)>>
         \o Split(SubSeq(text, FirstAt(text, sep) + 1, Len(text)), sep)

\* s[:-1]
DropLast(s) == IF s = << >> THEN << >> ELSE SubSeq(s, 1, Len(s) - 1)

-----------------------------------------------------------------------------
(* Numerals: Python float() on the numerals of the model's alphabet *)

MISSING == -999999000

FloatTable ==
    ("0.0" :> 0) @@ ("0.5" :> 500) @@ ("1.0" :> 1000) @@ ("1.5" :> 1500)
    @@ ("7.5" :> 7500) @@ ("-999999" :> MISSING)

\* float(field) is defined for a field made of one numeral
IsFloat(field) == Len(field) = 1 /\ field[1] \in DOMAIN FloatTable

Float(field) == FloatTable[field[1]]

-----------------------------------------------------------------------------
(* file_conversion.py: column registry and code tables *)

databloc_cols_def == <<
    [id |-> 1, description |-> "penetration length", units |-> "m"],
    [id |-> 2, description |-> "cone resistance", units |-> "MPa"],
    [id |-> 3, description |-> "local friction", units |-> "MPa"],
    [id |-> 4, description |-> "friction ratio", units |-> "-"],
    [id |-> 5, description |-> "pore pressure u1", units |-> "MPa"],
    [id |-> 6, description |-> "pore pressure u2", units |-> "MPa"],
    [id |-> 7, description |-> "pore pressure u3", units |-> "MPa"],
    [id |-> 8, description |-> "inclination resultant", units |-> "degrees"],
    [id |-> 9, description |-> "inclination ns", units |-> "degrees"],
    [id |-> 10, description |-> "inclination ew", units |-> "degrees"],
    [id |-> 11, description |-> "depth", units |-> "m"],
    [id |-> 12, description |-> "elapsed time", units |-> "s"],
    [id |-> 13, description |-> "corrected cone resistance", units |-> "MPa"],
    [id |-> 14, description |-> "net cone resistance", units |-> "MPa"],
    [id |-> 15, description |-> "pore ratio", units |-> "-"],
    [id |-> 21, description |-> "inclination x", units |-> "degrees"],
    [id |-> 22, description |-> "inclination y", units |-> "degrees"],
    [id |-> 23, description |-> "electrical conductivity", units |-> "S/m"],
    [id |-> 31, description |-> "magnetic field strength x", units |-> "nT"],
    [id |-> 32, description |-> "magnetic field strength y", units |-> "nT"],
    [id |-> 33, description |-> "magnetic field strength z", units |-> "nT"],
    [id |-> 34, description |-> "magnetic field strength total", units |-> "nT"],
    [id |-> 35, description |-> "magnetic inclination", units |-> "degrees"],
    [id |-> 36, description |-> "magnetic declination", units |-> "degrees"] >>

FALLBACK == "-"

zid_codes_initial ==
    ("Low Low Water Spring" :> "00001") @@ ("NAP" :> "31000")
    @@ ("Ostend Level" :> "32000") @@ ("TAW" :> "32001")
    @@ ("Normal Null" :> "49000")

stop_criteria_initial ==
    ("wegdrukkracht" :> "1") @@ ("obstakel" :> "6") @@ ("storing" :> "8")
    @@ ("einddiepte" :> "0") @@ ("bezwijkrisico" :> "7")

cpt_method_initial ==
    ("elektrischContinu" :> "4") @@ ("elektrisch" :> "0")

xyid_codes_initial ==
    ("Geographic Coordinate System" :> "00001") @@ ("SPCS" :> "01000")
    @@ ("RD" :> "31000") @@ ("RDNAPTRANS2008" :> "31000")
    @@ ("UTM-3N" :> "31001") @@ ("UTM-9N" :> "31002")
    @@ ("Belgian Bessel" :> "32000") @@ ("Gauss-Kruger" :> "49000")

\* a lookup whose default is the key itself, as dict.get(key, key) gives
Lookup_KeyAsCode(table, key) == IF key \in DOMAIN table THEN table[key] ELSE key

\* defaultdict.__getitem__: the value returned for key
Lookup(table, key) == IF key \in DOMAIN table THEN table[key] ELSE FALLBACK

\* defaultdict.__getitem__: the table after the lookup (__missing__ stores
\* the default under the key)
AfterLookup(table, key) ==
    IF key \in DOMAIN table THEN table ELSE table @@ (key :> FALLBACK)

-----------------------------------------------------------------------------
(* file_conversion.undo_camelcase *)

LowerCase ==
    ("Length" :> "length") @@ ("Resistance" :> "resistance")
    @@ ("Friction" :> "friction") @@ ("Ratio" :> "ratio")
    @@ ("Resultant" :> "resultant")

Lower(word) == IF word \in DOMAIN LowerCase THEN LowerCase[word] ELSE word

RECURSIVE SpacedLower(_)
SpacedLower(segments) ==
    IF segments = << >> THEN ""
    ELSE IF Len(segments) = 1 THEN Lower(Head(segments))
    ELSE Lower(Head(segments)) \o " " \o SpacedLower(Tail(segments))

\* re.sub("([a-z])([A-Z])", r"\g<1> \g<2>", string).lower(): a space goes in
\* at every lower/upper boundary, then the whole string is lower-cased
undo_camelcase(segments) == SpacedLower(segments)

-----------------------------------------------------------------------------
(* imbro_file.py: IMBROFile.convert_to_gef_file_content (XML -> GEF) *)

\* header lines whose code is resolved through a code table; the values are
\* the arguments interpolated into the line's format string
BuildHeaders(doc) ==
    [ZID    |-> <<Lookup(zid_codes, doc.verticalDatum), doc.offset>>,
     XYID   |-> <<Lookup(xyid_codes, doc.coordinateTransformation)>> \o doc.pos,
     METHOD |-> <<"12", Lookup(cpt_method, doc.cptMethod), "-", "sondeermethode">>,
     STOP   |-> <<"17", Lookup(stop_criteria, doc.stopCriterion), "-", "stopcriterium">>]

\* a match that ignores the description: the whole registry
RegistryMatches_Whole(tag_spaces) == databloc_cols_def

\* [w for w in databloc_cols_def if w['description'] == tag_spaces]
RegistryMatches(tag_spaces) ==
    SelectSeq(databloc_cols_def, LAMBDA w : w.description = tag_spaces)

RECURSIVE BuildMetaFrom(_, _, _, _)
\* the loop over enumerate(parameters): i is the 0-based index of the entry
\* read next; [0] of an empty list of matches raises IndexError
BuildMetaFrom(parameters, i, columns, columninfo) ==
    IF i >= Len(parameters)
    THEN [status |-> "ok", columns |-> columns, COLUMNINFO |-> columninfo,
          COLUMN |-> Len(columns)]
    ELSE LET tag        == parameters[i + 1][1]
             value      == parameters[i + 1][2]
             tag_spaces == undo_camelcase(tag)
             found      == RegistryMatches(tag_spaces)
         IN  IF value = TRUE
             THEN IF found = << >>
                  THEN [status |-> "IndexError"]
                  ELSE BuildMetaFrom(parameters, i + 1, Append(columns, i),
                           Append(columninfo,
                               [id          |-> found[1].id,
                                description |-> found[1].description,
                                units       |-> found[1].units,
                                colnum      |-> Len(columns) + 1]))
             ELSE BuildMetaFrom(parameters, i + 1, columns, columninfo)

BuildMeta(parameters) == BuildMetaFrom(parameters, 0, << >>, << >>)

DEFAULT_TOKEN_SEPARATOR == ","

DEFAULT_BLOCK_SEPARATOR == ";"

TokenSeparator(encoding) ==
    IF encoding # NoValue THEN encoding[1].tokenSeparator
    ELSE DEFAULT_TOKEN_SEPARATOR

BlockSeparator(encoding) ==
    IF encoding # NoValue THEN encoding[1].blockSeparator
    ELSE DEFAULT_BLOCK_SEPARATOR

\* values.split(block_separator)[:-1]
BlockSegments(values, block_separator) == DropLast(Split(values, block_separator))

\* [row.split(token_separator) for row in values.split(block_separator)[:-1]]
DataRows(values, encoding) ==
    LET segments == BlockSegments(values, BlockSeparator(encoding))
    IN  [i \in 1..Len(segments) |-> Split(segments[i], TokenSeparator(encoding))]

RECURSIVE InsertByKey(_, _, _)
\* row goes behind every row whose key is not greater (stable)
InsertByKey(row, sorted, col) ==
    IF sorted = << >> THEN <<row>>
    ELSE IF Float(Head(sorted)[col]) <= Float(row[col])
         THEN <<Head(sorted)>> \o InsertByKey(row, Tail(sorted), col)
         ELSE <<row>> \o sorted

RECURSIVE SortedFrom(_, _, _)
SortedFrom(rows, acc, col) ==
    IF rows = << >> THEN acc
    ELSE SortedFrom(Tail(rows), InsertByKey(Head(rows), acc, col), col)

\* the rows left in the order of the document
SortedByColumn_AsRead(rows, col) == rows

\* sorted(rows, key=lambda x: float(x[col - 1])): col counts from 1
SortedByColumn(rows, col) == SortedFrom(rows, << >>, col)

\* sorted(data_rows, key=lambda x: float(x[0]))
SortRows(data_rows) == SortedByColumn(data_rows, 1)

COMMA_JOINER == ","

FIELD_JOINER == ";"

ROW_TERMINATOR == <<";", "!", "\n">>

\* a row written with all its fields, the selection ignored
EmitRow_AllFields(row, columns) == Join(row, ";") \o <<";", "!", "\n">>

\* ';'.join([str(row[column_idx]) for column_idx in columns]) + ';!\n'
EmitRow(row, columns) ==
    Join([j \in 1..Len(columns) |-> row[columns[j] + 1]], FIELD_JOINER)
    \o ROW_TERMINATOR

\* the conversion, headers aside: meta, then the data block
GefBody(doc) ==
    LET meta      == BuildMeta(doc.parameters)
        data_rows == DataRows(doc.values, doc.encoding)
        sorted    == SortRows(data_rows)
    IN  IF meta.status # "ok" THEN [status |-> meta.status]
        ELSE IF \E i \in 1..Len(data_rows) : ~IsFloat(data_rows[i][1])
        THEN [status |-> "ValueError"]
        ELSE IF \E i \in 1..Len(data_rows) : \E j \in 1..Len(meta.columns) :
                    meta.columns[j] + 1 > Len(data_rows[i])
        THEN [status |-> "IndexError"]
        ELSE [status   |-> "ok",
              headers  |-> BuildHeaders(doc),
              meta     |-> [COLUMNINFO |-> meta.COLUMNINFO,
                            COLUMN     |-> meta.COLUMN,
                            LASTSCAN   |-> Len(sorted)],
              columns  |-> meta.columns,
              rows     |-> sorted,
              data     |-> Concat([i \in 1..Len(sorted) |->
                                      EmitRow(sorted[i], meta.columns)])]

ConvertToGef ==
    /\ pc = "start"
    /\ pc' = "gef_done"
    /\ gef_out' = GefBody(xml_doc)
       \* the headers are built first: the four lookups happen on every call
    /\ zid_codes' = AfterLookup(zid_codes, xml_doc.verticalDatum)
    /\ xyid_codes' = AfterLookup(xyid_codes, xml_doc.coordinateTransformation)
    /\ cpt_method' = AfterLookup(cpt_method, xml_doc.cptMethod)
    /\ stop_criteria' = AfterLookup(stop_criteria, xml_doc.stopCriterion)
    /\ UNCHANGED <<xml_src, xml_doc, cpt_out>>
    /\ UNCHANGED <<tpl_vars, gef_vars, facade_vars, filter_vars>>

-----------------------------------------------------------------------------
(* file_conversion.py: convert_xml_dict_to_cpt_dict (XML -> CPT record) *)

\* the keys of GEF_XML_MAPPING, in the dictionary's order
MappingKeys == <<"Rf", "fs", "qc", "elevation", "corrected_depth">>

GEF_XML_MAPPING ==
    [Rf              |-> <<"friction", "Ratio">>,
     fs              |-> <<"local", "Friction">>,
     qc              |-> <<"cone", "Resistance">>,
     elevation       |-> <<"depth">>,
     corrected_depth |-> <<"depth">>]

\* the 0-based indexes i of the entries (tag, True) with tag == label
FlaggedAt(parameters, label) ==
    {i - 1 : i \in {k \in 1..Len(parameters) :
                      parameters[k][1] = label /\ parameters[k][2] = TRUE}}

SetMax(S) == CHOOSE m \in S : \A x \in S : x <= m

SetMin(S) == CHOOSE m \in S : \A x \in S : m <= x

\* the keys given a column by the loop over enumerate(parameters)
MappedKeys(parameters) ==
    {key \in Range(MappingKeys) :
        FlaggedAt(parameters, GEF_XML_MAPPING[key]) # {}}

\* mapping[key]: the last entry that matches wins
MappedColumn(parameters, key) ==
    SetMax(FlaggedAt(parameters, GEF_XML_MAPPING[key]))

\* a loop body that converts every field, the sentinel included
SampleOf_KeepSentinel(key, data_value, elevation_offset) ==
    IF key = "elevation" THEN Some(elevation_offset - data_value)
    ELSE IF key = "Rf" THEN Some(data_value \div 100)
    ELSE Some(data_value)

\* the sample appended for a field of value data_value (thousandths) under
\* key: None for the sentinel, else the value converted to the key's unit
\* (Rf: per cent to fraction, kept in thousandths)
SampleOf(key, data_value, elevation_offset) ==
    IF data_value = MISSING THEN NoValue
    ELSE IF key = "elevation" THEN Some(elevation_offset - data_value)
    ELSE IF key = "corrected_depth" THEN Some(data_value)
    ELSE IF key = "Rf" THEN Some(data_value \div 100)
    ELSE Some(data_value)

\* the channel filled by the loop over the sorted rows
Channel(key, parameters, sorted_data, elevation_offset) ==
    IF key \in MappedKeys(parameters)
    THEN [i \in 1..Len(sorted_data) |->
             SampleOf(key, Float(sorted_data[i][MappedColumn(parameters, key) + 1]),
                      elevation_offset)]
    ELSE << >>

Min(a, b) == IF a <= b THEN a ELSE b

\* fs / qc on floats counted in thousandths
Quotient(fs, qc) == (fs * 1000) \div qc

\* the top-level keys the element of the same meaning is looked for under,
\* and the element of conePenetrometer its value is read from
ConeHeaders ==
    [cone_tip_area |->
         [tested |-> <<"cone", "Surface", "Area">>,
          read   |-> <<"cone", "Surface", "Area">>],
     friction_sleeve_area |->
         [tested |-> <<"friction", "Sleeve", "Surface", "Area">>,
          read   |-> <<"friction", "Sleeve", "Surface", "Area">>],
     surface_area_quotient_tip |->
         [tested |-> <<"cone", "Surface", "Quotient">>,
          read   |-> <<"cone", "Surface", "Quotient">>],
     surface_area_quotient_friction_sleeve |->
         [tested |-> <<"friction", "Sleeve", "Surface", "Quotient">>,
          read   |-> <<"cone", "Surface", "Quotient">>],
     distance_cone_to_centre_friction_sleeve |->
         [tested |-> <<"cone", "To", "Friction", "Sleeve", "Distance">>,
          read   |-> <<"cone", "To", "Friction", "Sleeve", "Distance">>]]

\* float(xml_data.conePenetrometerSurvey.conePenetrometer.<read>)
\* if '<tested>' in xml_data.keys() else None
ConeHeader(doc, header) ==
    IF ConeHeaders[header].tested \in doc.keys
    THEN Some(Float(<<doc.conePenetrometer[ConeHeaders[header].read]>>))
    ELSE NoValue

\* a header whose key is found reads an element that the document lacks
ConeElementMissing(doc) ==
    \E header \in DOMAIN ConeHeaders :
        /\ ConeHeaders[header].tested \in doc.keys
        /\ ConeHeaders[header].read \notin DOMAIN doc.conePenetrometer

\* the cone headers of the record returned
CptHeaders(doc) == [header \in DOMAIN ConeHeaders |-> ConeHeader(doc, header)]

CptBody(doc) ==
    LET parameters       == doc.parameters
        elevation_offset == Float(<<doc.offset>>)
        keys             == MappedKeys(parameters)
        data_rows        == DataRows(doc.values, doc.encoding)
        sorted_data      == SortedByColumn(data_rows,
                                MappedColumn(parameters, "elevation") + 1)
        filled == [key \in Range(MappingKeys) |->
                      Channel(key, parameters, sorted_data, elevation_offset)]
        pairs  == Min(Len(filled["qc"]), Len(filled["fs"]))
    IN  IF "elevation" \notin keys THEN [status |-> "UserException"]
        ELSE IF \E i \in 1..Len(data_rows) : \E key \in keys :
                    MappedColumn(parameters, key) + 1 > Len(data_rows[i])
        THEN [status |-> "IndexError"]
        ELSE IF \E i \in 1..Len(data_rows) : \E key \in keys :
                    ~IsFloat(data_rows[i][MappedColumn(parameters, key) + 1])
        THEN [status |-> "ValueError"]
        ELSE IF filled["Rf"] # << >>
        THEN IF ConeElementMissing(doc) THEN [status |-> "AttributeError"]
             ELSE [status |-> "ok", rows |-> sorted_data,
                   headers |-> CptHeaders(doc), measurement_data |-> filled]
        \* Rf is not provided: fs / qc over zip(qc, fs)
        ELSE IF \E i \in 1..pairs :
                    filled["qc"][i] = NoValue \/ filled["fs"][i] = NoValue
        THEN [status |-> "TypeError"]
        ELSE IF \E i \in 1..pairs : filled["qc"][i] = Some(0)
        THEN [status |-> "ZeroDivisionError"]
        ELSE IF ConeElementMissing(doc) THEN [status |-> "AttributeError"]
        ELSE [status |-> "ok", rows |-> sorted_data,
              headers |-> CptHeaders(doc),
              measurement_data |->
                  [filled EXCEPT !["Rf"] =
                      [i \in 1..pairs |->
                          Some(Quotient(filled["fs"][i][1], filled["qc"][i][1]))]]]

ConvertXmlDictToCptDict ==
    /\ pc = "start"
    /\ pc' = "cpt_done"
    /\ cpt_out' = CptBody(xml_doc)
    /\ UNCHANGED <<table_vars, xml_src, xml_doc, gef_out, tpl_vars, gef_vars,
                   facade_vars, filter_vars>>

-----------------------------------------------------------------------------
(* XML trees and Python dictionaries                                       *)
(*                                                                         *)
(* An element is [tag, attrib, nsmap, text, children]: tag is              *)
(* [ns, name], the "{ns}name" of lxml with ns = "" for a tag without       *)
(* namespace; nsmap maps the prefixes in scope to their URI (the prefix    *)
(* None for the default namespace); text is an optional text (a sequence   *)
(* of tokens).  An ordered dictionary is a sequence of [key, val] items    *)
(* with distinct keys.                                                     *)

Tag(ns, name) == [ns |-> ns, name |-> name]

Element(tag, nsmap, text, children) ==
    [tag |-> tag, attrib |-> << >>, nsmap |-> nsmap, text |-> text,
     children |-> children]

\* tag.split('}')[-1]
LocalName(tag) == tag.name

Keys(items) == [i \in 1..Len(items) |-> items[i].key]

HasKey(items, key) == \E i \in 1..Len(items) : items[i].key = key

Get(items, key) == items[CHOOSE i \in 1..Len(items) : items[i].key = key].val

\* a dictionary that puts a new key in front
Put_Prepend(items, key, val) == <<[key |-> key, val |-> val]>> \o items

\* d[key] = val on an ordered dictionary: a known key keeps its place
Put(items, key, val) ==
    IF HasKey(items, key)
    THEN [i \in 1..Len(items) |->
             IF items[i].key = key THEN [key |-> key, val |-> val] ELSE items[i]]
    ELSE Append(items, [key |-> key, val |-> val])

\* the text '' and the text of one token
EmptyText == << >>

Text(token) == <<token>>

TextValue(text) == [kind |-> "text", text |-> text]

DictValue(items) == [kind |-> "dict", items |-> items]

ListValue(items) == [kind |-> "list", items |-> items]

-----------------------------------------------------------------------------
(* gef_file.py: the template engine of GEFFile *)

BRO_NAMESPACE == "http://www.broservices.nl/xsd/dscpt/1.1"

RECURSIVE ParseChildren(_, _, _, _)
RECURSIVE ParseTemplateNode(_, _, _)

\* _parse_xml_template for one node, before the root's default namespace is
\* added.  parent_nsmap is NoValue for the root call, else Some(nsmap of the
\* parent structure); shared tells that the node's nsmap is the very
\* dictionary object of the root structure
ParseTemplateNode(node, parent_nsmap, parent_shared) ==
    LET inherits == parent_nsmap # NoValue /\ DOMAIN parent_nsmap[1] # {}
        delta    == /\ inherits
                    /\ DOMAIN node.nsmap # {}
                    /\ node.nsmap # parent_nsmap[1]
        nsmap    == IF delta
                    THEN [k \in DOMAIN node.nsmap \ DOMAIN parent_nsmap[1] |->
                             node.nsmap[k]]
                    ELSE IF inherits THEN parent_nsmap[1] ELSE node.nsmap
        shared   == IF parent_nsmap = NoValue THEN TRUE
                    ELSE inherits /\ ~delta /\ parent_shared
    IN  [attributes |-> node.attrib,
         default    |-> node.text,
         nsmap      |-> nsmap,
         shared     |-> shared,
         value      |-> IF node.children = << >> THEN TextValue(node.text)
                        ELSE DictValue(ParseChildren(node.children, nsmap,
                                                     shared, << >>))]

\* the loop structure['value'][child.tag] = self._parse_xml_template(child, ...)
ParseChildren(children, nsmap, shared, items) ==
    IF children = << >> THEN items
    ELSE ParseChildren(Tail(children), nsmap, shared,
             Put(items, Head(children).tag,
                 ParseTemplateNode(Head(children), Some(nsmap), shared)))

RECURSIVE AddDefaultNamespace(_)
\* structure['nsmap'][None] = ... on the root: every structure that holds
\* the root's dictionary object sees the new entry
AddDefaultNamespace(structure) ==
    [attributes |-> structure.attributes,
     default    |-> structure.default,
     nsmap      |-> IF structure.shared
                    THEN [k \in DOMAIN structure.nsmap \cup {None} |->
                             IF k = None THEN BRO_NAMESPACE
                             ELSE structure.nsmap[k]]
                    ELSE structure.nsmap,
     value      |-> IF structure.value.kind = "dict"
                    THEN DictValue(
                             [i \in 1..Len(structure.value.items) |->
                                 [key |-> structure.value.items[i].key,
                                  val |-> AddDefaultNamespace(
                                              structure.value.items[i].val)]])
                    ELSE structure.value]

\* _parse_xml_template(root): {root.tag: structure}
ParseXmlTemplate(root) ==
    <<[key |-> root.tag,
       val |-> AddDefaultNamespace(ParseTemplateNode(root, NoValue, TRUE))]>>

\* the template tag a data key matches: the first whose local name is the key
MatchingTags(template_items, tag) ==
    {i \in 1..Len(template_items) : LocalName(template_items[i].key) = tag}

FillError == [kind |-> "error"]

RECURSIVE FillItems(_, _, _)
RECURSIVE FillValue(_, _)

\* _reformat_using_template(value, template, skip_root=False), template
\* being the 'value' of a structure: a dictionary of structures, or a text on
\* which template.keys() raises AttributeError as soon as data has an item
FillValue(data_items, template_value) ==
    IF template_value.kind = "dict"
    THEN DictValue(FillItems(data_items, template_value.items,
                             template_value.items))
    ELSE IF data_items = << >> THEN template_value
    ELSE FillError

\* the loop over data.items(): filled starts as the copy of the template
FillItems(data_items, template_items, filled) ==
    IF data_items = << >> THEN filled
    ELSE LET tag     == Head(data_items).key
             value   == Head(data_items).val
             matches == MatchingTags(template_items, tag)
             at      == CHOOSE i \in matches : \A j \in matches : i <= j
             new     == IF value.kind = "dict"
                        THEN FillValue(value.items, template_items[at].val.value)
                        ELSE TextValue(value.text)
         IN  IF matches = {}
             THEN FillItems(Tail(data_items), template_items, filled)
             ELSE FillItems(Tail(data_items), template_items,
                      [filled EXCEPT ![at] =
                          [key |-> filled[at].key,
                           val |-> [filled[at].val EXCEPT !.value = new]]])

\* _reformat_using_template(data, template): the root is skipped
ReformatUsingTemplate(data_items, template) ==
    <<[key |-> template[1].key,
       val |-> [template[1].val EXCEPT
                   !.value = FillValue(data_items, template[1].val.value)]]>>

RECURSIVE FillFailed(_)
\* the fill raised: a dictionary of data met a text of the template
FillFailed(value) ==
    \/ value.kind = "error"
    \/ /\ value.kind = "dict"
       /\ \E i \in 1..Len(value.items) : FillFailed(value.items[i].val.value)

RECURSIVE BuildElement(_, _)
\* _build_xml for one item: an element with the structure's nsmap and
\* attributes, its children built in the order of the dictionary, or its text
BuildElement(tag, element_data) ==
    [tag      |-> tag,
     attrib   |-> element_data.attributes,
     nsmap    |-> element_data.nsmap,
     text     |-> IF element_data.value.kind = "dict" THEN NoValue
                  ELSE IF element_data.value.text = NoValue THEN Some(EmptyText)
                  ELSE element_data.value.text,
     children |-> IF element_data.value.kind = "dict"
                  THEN [i \in 1..Len(element_data.value.items) |->
                           BuildElement(element_data.value.items[i].key,
                                        element_data.value.items[i].val)]
                  ELSE << >>]

\* _build_xml(templated_data): the element of the root item
BuildXml(templated_data) ==
    BuildElement(templated_data[1].key, templated_data[1].val)

-----------------------------------------------------------------------------
(* imbro_file.py: IMBROFile._parse_xml_file on serialized XML *)

RECURSIVE Reparsed(_)
\* etree.fromstring(etree.tostring(root)): an element written with the text
\* '' is read back without text
Reparsed(elem) ==
    [tag      |-> elem.tag,
     attrib   |-> elem.attrib,
     nsmap    |-> elem.nsmap,
     text     |-> IF elem.text = Some(EmptyText) THEN NoValue ELSE elem.text,
     children |-> [i \in 1..Len(elem.children) |-> Reparsed(elem.children[i])]]

PARAMETERS_TAG == <<"parameters">>

\* sub_child.text in {'ja', 1}: a text is never the integer 1
IsYes(text) == text = Some(Text("ja"))

\* [(sub_child.tag.split('}')[-1], sub_child.text in {'ja', 1}) for sub_child in child]
ParametersList(child) ==
    [i \in 1..Len(child.children) |->
        <<LocalName(child.children[i].tag), IsYes(child.children[i].text)>>]

RECURSIVE FlattenChildren(_, _)
RECURSIVE ParseXmlToDict(_)

\* _parse_xml_to_dict_recursively
ParseXmlToDict(node) ==
    IF node.children = << >> THEN TextValue(node.text)
    ELSE DictValue(FlattenChildren(node.children, << >>))

\* the loop over node.getchildren(), filling grand_children
FlattenChildren(children, grand_children) ==
    IF children = << >> THEN grand_children
    ELSE LET child == Head(children)
             tag   == LocalName(child.tag)
         IN  FlattenChildren(Tail(children),
                 Put(grand_children, tag,
                     IF tag = PARAMETERS_TAG
                     THEN ListValue(ParametersList(child))
                     ELSE ParseXmlToDict(child)))

-----------------------------------------------------------------------------
(* gef_file.py: GEFFile.convert_to_imbro_file_content (GEF -> XML) *)

Digits == <<"0", "1", "2", "3", "4", "5", "6", "7", "8", "9">>

RECURSIVE NatStr(_)
NatStr(n) ==
    IF n < 10 THEN Digits[n + 1]
    ELSE NatStr(n \div 10) \o Digits[(n % 10) + 1]

Abs(v) == IF v < 0 THEN -v ELSE v

\* '{:.3f}'.format(num), num counted in thousandths
Format3(v) ==
    (IF v < 0 THEN "-" ELSE "") \o NatStr(Abs(v) \div 1000) \o "."
    \o Digits[((Abs(v) \div 100) % 10) + 1]
    \o Digits[((Abs(v) \div 10) % 10) + 1]
    \o Digits[(Abs(v) % 10) + 1]

\* str(num) of a float counted in thousandths: the shortest decimal, with
\* one decimal at least
StrFloat(v) ==
    (IF v < 0 THEN "-" ELSE "") \o NatStr(Abs(v) \div 1000) \o "."
    \o Digits[((Abs(v) \div 100) % 10) + 1]
    \o (IF Abs(v) % 100 = 0 THEN ""
        ELSE Digits[((Abs(v) \div 10) % 10) + 1]
             \o (IF Abs(v) % 10 = 0 THEN "" ELSE Digits[(Abs(v) % 10) + 1]))

SENTINEL == "-999999"

NUM_COLUMNS == 25

PENETRATION_LENGTH_COLUMN == 0

DEPTH_COLUMN == 1

CONE_RESISTANCE_COLUMN == 3

INCLINATION_COLUMN == 15

LOCAL_FRICTION_COLUMN == 18

FRICTION_RATIO_COLUMN == 24

\* _yes_no(key, cpt_dict)
YesNo(key, measurement_data) ==
    IF key \in DOMAIN measurement_data THEN "ja" ELSE "nee"

\* an axis that holds its end value in every row
Linspace_Flat(stop, num) == [i \in 1..num |-> Some(stop)]

\* np.linspace(0, stop, num), stop in thousandths, each value rounded to the
\* thousandth it is printed with
Linspace(stop, num) ==
    [i \in 1..num |->
        IF num = 1 THEN Some(0)
        ELSE Some((2 * (i - 1) * stop + (num - 1)) \div (2 * (num - 1)))]

\* values[k, :] = channel: None becomes nan (NoValue)
AssignRow(channel) == channel

\* [Rf * 100 if Rf else Rf for Rf in measurement_data['Rf']]
PercentRf(channel) ==
    [i \in 1..Len(channel) |->
        IF channel[i] # NoValue /\ channel[i] # Some(0)
        THEN Some(channel[i][1] * 100) ELSE channel[i]]

\* the matrix values after the assignments: column index -> samples
ValuesMatrix(headers, measurement_data, data_len) ==
    [k \in 0..(NUM_COLUMNS - 1) |->
        IF k = PENETRATION_LENGTH_COLUMN THEN Linspace(headers.depth, data_len)
        ELSE IF k = DEPTH_COLUMN THEN Linspace(headers.corrected_depth, data_len)
        ELSE IF k = CONE_RESISTANCE_COLUMN /\ "qc" \in DOMAIN measurement_data
            THEN AssignRow(measurement_data["qc"])
        ELSE IF k = INCLINATION_COLUMN /\ "inclination" \in DOMAIN measurement_data
            THEN AssignRow(measurement_data["inclination"])
        ELSE IF k = LOCAL_FRICTION_COLUMN /\ "fs" \in DOMAIN measurement_data
            THEN AssignRow(measurement_data["fs"])
        ELSE IF k = FRICTION_RATIO_COLUMN /\ "Rf" \in DOMAIN measurement_data
            THEN AssignRow(PercentRf(measurement_data["Rf"]))
        ELSE [i \in 1..data_len |-> NoValue]]

\* '-999999' if np.isnan(num) else '{:.3f}'.format(num)
RenderNumber(num) == IF num = NoValue THEN SENTINEL ELSE Format3(num[1])

\* ','.join([... for num in row]) + ';' for the i-th row of values.T
RenderRow(values, i) ==
    Join([k \in 1..NUM_COLUMNS |-> Text(RenderNumber(values[k - 1][i]))], ",")
    \o <<";">>

\* result_str
RenderValues(values, data_len) ==
    Concat([i \in 1..data_len |-> RenderRow(values, i)])

\* the headers read while the data object is built, in the order read
HeadersRead ==
    <<"name", "gef_file_date", "height_system", "fixed_horizontal_level",
      "ground_level_wrt_reference_m", "cone_type", "cone_tip_area",
      "friction_sleeve_area", "surface_area_quotient_tip",
      "surface_area_quotient_friction_sleeve",
      "distance_cone_to_centre_friction_sleeve", "excavation_depth",
      "corrected_depth", "x_y_coordinates">>

MissingHeaders(headers) ==
    {i \in 1..Len(HeadersRead) : HeadersRead[i] \notin DOMAIN headers}

Entry(name, text) == [key |-> name, val |-> TextValue(Some(Text(text)))]

Nested(name, items) == [key |-> name, val |-> DictValue(items)]

\* datetime.now().strftime('%Y-%m-%dT%H:%M:%S%z'), one token per character:
\* datetime.now() carries no time zone, for which %z is the empty string
TimeStr ==
    <<"2", "0", "2", "1", "-", "0", "3", "-", "0", "4", "T",
      "1", "0", ":", "1", "1", ":", "1", "2">>

\* time_str[:-2] + ':' + time_str[-2:]
RegistrationTime(time_str) ==
    IF Len(time_str) < 2 THEN <<":">> \o time_str
    ELSE SubSeq(time_str, 1, Len(time_str) - 2) \o <<":">>
         \o SubSeq(time_str, Len(time_str) - 1, Len(time_str))

TextEntry(name, text) == [key |-> name, val |-> TextValue(Some(text))]

\* standard.strip(), quality_class.strip()
StripTable ==
    ("NEN-EN-ISO 22476-1 " :> "NEN-EN-ISO 22476-1") @@ (" klasse2" :> "klasse2")

Strip(part) == IF part \in DOMAIN StripTable THEN StripTable[part] ELSE part

\* the dictionary data of the try block, with result_str under
\* cptResult.values
DataLiteral(headers, measurement_data, result_str) ==
    << Entry(<<"bro", "Id">>, headers.name),
       Nested(<<"research", "Report", "Date">>,
           <<Entry(<<"date">>, headers.gef_file_date)>>),
       Nested(<<"delivered", "Vertical", "Position">>,
           << Entry(<<"vertical", "Datum">>, headers.height_system),
              Entry(<<"local", "Vertical", "Reference", "Point">>,
                    headers.fixed_horizontal_level),
              Entry(<<"offset">>, headers.ground_level_wrt_reference_m),
              Nested(<<"vertical", "Positioning", "Date">>,
                  <<Entry(<<"date">>, headers.gef_file_date)>>) >>),
       Nested(<<"cone", "Penetrometer", "Survey">>,
           << Nested(<<"cone", "Penetrometer">>,
                  << Entry(<<"cone", "Penetrometer", "Type">>, headers.cone_type),
                     Entry(<<"cone", "Surface", "Area">>, headers.cone_tip_area),
                     Entry(<<"friction", "Sleeve", "Surface", "Area">>,
                           headers.friction_sleeve_area),
                     Entry(<<"cone", "Surface", "Quotient">>,
                           headers.surface_area_quotient_tip),
                     Entry(<<"friction", "Sleeve", "Surface", "Quotient">>,
                           headers.surface_area_quotient_friction_sleeve),
                     Entry(<<"cone", "To", "Friction", "Sleeve", "Distance">>,
                           headers.distance_cone_to_centre_friction_sleeve) >>),
              Nested(<<"trajectory">>,
                  << Entry(<<"predrilled", "Depth">>, headers.excavation_depth),
                     Entry(<<"final", "Depth">>,
                           StrFloat(headers.corrected_depth)) >>),
              Nested(<<"parameters">>,
                  << Entry(<<"depth">>, "ja"),
                     Entry(<<"penetration", "Length">>, "ja"),
                     Entry(<<"inclination", "Resultant">>,
                           YesNo("inclination", measurement_data)),
                     Entry(<<"local", "Friction">>, YesNo("fs", measurement_data)),
                     Entry(<<"friction", "Ratio">>, YesNo("Rf", measurement_data)),
                     Entry(<<"cone", "Resistance">>,
                           YesNo("qc", measurement_data)) >>),
              Nested(<<"final", "Processing", "Date">>,
                  <<Entry(<<"date">>, headers.gef_file_date)>>),
              Nested(<<"cone", "Penetration", "Test">>,
                  <<Nested(<<"cpt", "Result">>,
                      <<[key |-> <<"values">>,
                         val |-> TextValue(Some(result_str))]>>)>>) >>),
       Nested(<<"delivered", "Location">>,
           << Nested(<<"location">>,
                  <<Entry(<<"pos">>, headers.x_y_coordinates)>>),
              Nested(<<"horizontal", "Positioning", "Date">>,
                  <<Entry(<<"date">>, headers.gef_file_date)>>) >>),
       Nested(<<"registration", "History">>,
           << TextEntry(<<"object", "Registration", "Time">>,
                        RegistrationTime(TimeStr)),
              Entry(<<"registration", "Status">>, "voltooid"),
              TextEntry(<<"registration", "Completion", "Time">>,
                        RegistrationTime(TimeStr)) >>) >>

SURVEY == <<"cone", "Penetrometer", "Survey">>

\* a measurement standard is the sequence of its parts around '/'
\* data["cptStandard"] and data[...]["qualityClass"] are added at the end
DataObject(headers, measurement_data, result_str) ==
    LET data == DataLiteral(headers, measurement_data, result_str)
        ms   == headers.measurement_standard
    IN  IF "measurement_standard" \in DOMAIN headers /\ Len(ms) > 1
        THEN Put(Put(data, <<"cpt", "Standard">>,
                     TextValue(Some(Text(Strip(ms[1]))))),
                 SURVEY,
                 DictValue(Put(Get(data, SURVEY).items,
                               <<"quality", "Class">>,
                               TextValue(Some(Text(Strip(ms[2])))))))
        ELSE data

\* the conversion of a record, template being self.template
ImbroBody(record, template) ==
    LET headers          == record.headers
        measurement_data == record.measurement_data
        data_len         == Len(measurement_data["fs"])
        values           == ValuesMatrix(headers, measurement_data, data_len)
        data   == DataObject(headers, measurement_data,
                             RenderValues(values, data_len))
        filled == ReformatUsingTemplate(data, template)
    IN  IF MissingHeaders(headers) # {}
        THEN [status  |-> "UserException",
              missing |-> HeadersRead[SetMin(MissingHeaders(headers))]]
        ELSE IF /\ "measurement_standard" \in DOMAIN headers
                /\ Len(headers.measurement_standard) > 2
        THEN [status |-> "ValueError"]
        ELSE IF "fs" \notin DOMAIN measurement_data \/ "depth" \notin DOMAIN headers
        THEN [status |-> "AttributeError"]
        ELSE IF \E k \in {"qc", "inclination", "fs", "Rf"} \cap DOMAIN measurement_data :
                    Len(measurement_data[k]) \notin {data_len, 1}
        THEN [status |-> "ValueError"]
        ELSE IF FillFailed(filled[1].val.value)
        THEN [status |-> "AttributeError"]
        ELSE [status |-> "ok",
              values |-> RenderValues(values, data_len),
              data   |-> data,
              tree   |-> BuildXml(filled)]

-----------------------------------------------------------------------------
(* The XML documents of the model *)

\* data rows of the numeric block: penetration length, depth, cone
\* resistance, and a fourth column read as local friction or friction ratio;
\* -999999 marks a missing sample, 0.0 a cone resistance of zero
XmlRows ==
    {<<"0.5", "1.0", "7.5", "1.5">>,
     <<"1.5", "1.5", "0.0", "0.5">>,
     <<"1.0", "0.5", "-999999", "1.5">>,
     <<"1.0", "1.5", "7.5", "-999999">>,
     <<"1.5", "-999999", "1.0", "0.5">>}

FourthParameters ==
    {<<"local", "Friction">>, <<"friction", "Ratio">>, <<"temperature">>}

ParameterLists ==
    {<< <<<<"penetration", "Length">>, b1>>, <<<<"depth">>, b2>>,
        <<<<"cone", "Resistance">>, b3>>, <<fourth, b4>> >> :
        b1 \in BOOLEAN, b2 \in BOOLEAN, b3 \in BOOLEAN, b4 \in BOOLEAN,
        fourth \in FourthParameters}

\* the elements of conePenetrometer that the cone headers are read from
FullConePenetrometer ==
    (<<"cone", "Surface", "Area">> :> "1.5")
    @@ (<<"friction", "Sleeve", "Surface", "Area">> :> "7.5")
    @@ (<<"cone", "Surface", "Quotient">> :> "0.5")
    @@ (<<"friction", "Sleeve", "Surface", "Quotient">> :> "1.0")
    @@ (<<"cone", "To", "Friction", "Sleeve", "Distance">> :> "1.0")

\* the elements directly under CPT_O
CPT_O_KEYS ==
    {<<"bro", "Id">>, <<"delivery", "Accountable", "Party">>,
     <<"quality", "Regime">>, <<"survey", "Purpose">>,
     <<"research", "Report", "Date">>, <<"cpt", "Standard">>,
     <<"standardized", "Location">>, <<"delivered", "Location">>,
     <<"delivered", "Vertical", "Position">>, <<"registration", "History">>,
     <<"cone", "Penetrometer", "Survey">>}

\* descriptive values of the header: listed in the code tables, not listed,
\* and an element without text
Vocabularies ==
    {[verticalDatum |-> "NAP", coordinateTransformation |-> "RD",
      cptMethod |-> "elektrisch", stopCriterion |-> "einddiepte",
      conePenetrometer |-> FullConePenetrometer],
     [verticalDatum |-> "Mars Datum", coordinateTransformation |-> "RD",
      cptMethod |-> "hydraulisch", stopCriterion |-> "einddiepte",
      conePenetrometer |-> << >>],
     [verticalDatum |-> None, coordinateTransformation |-> "Lunar Grid",
      cptMethod |-> "elektrischContinu", stopCriterion |-> "onweer",
      conePenetrometer |->
          (<<"cone", "Surface", "Area">> :> "1.5")
          @@ (<<"cone", "Surface", "Quotient">> :> "0.5")]}

\* a row with fewer fields than the parameters list has entries
ShortRow == <<"1.5", "1.0">>

\* the rows of a document: rows of full width, or a short row at the end
RowSequences ==
    SeqUpTo(XmlRows, MaxRows)
    \cup {Append(rows, ShortRow) : rows \in SeqUpTo(XmlRows, MaxRows - 1)}

\* the encoding declaration of a document: none, or the separators given as
\* attributes of TextEncoding (the form of the SWE schema), or as child
\* elements of TextEncoding
Declarations ==
    {[form |-> "none"],
     [form |-> "attributes", tokenSeparator |-> "|", blockSeparator |-> "@"],
     [form |-> "children", tokenSeparator |-> "|", blockSeparator |-> "@"]}

\* the separators the document is written with
DeclaredEncoding(declaration) ==
    IF declaration.form = "none" THEN NoValue
    ELSE Some([tokenSeparator |-> declaration.tokenSeparator,
               blockSeparator |-> declaration.blockSeparator])

SWE_NAMESPACE == "http://www.opengis.net/swe/2.0"

SweElement(name, attrib, text, children) ==
    [tag |-> Tag(SWE_NAMESPACE, name), attrib |-> attrib,
     nsmap |-> ("swe" :> SWE_NAMESPACE), text |-> text, children |-> children]

\* the element <encoding> of cptResult
EncodingElement(declaration) ==
    SweElement(<<"encoding">>, << >>, NoValue,
        <<SweElement(<<"Text", "Encoding">>,
              IF declaration.form = "attributes"
              THEN [tokenSeparator   |-> declaration.tokenSeparator,
                    blockSeparator   |-> declaration.blockSeparator,
                    decimalSeparator |-> "."]
              ELSE << >>,
              NoValue,
              IF declaration.form = "children"
              THEN << SweElement(<<"token", "Separator">>, << >>,
                          Some(Text(declaration.tokenSeparator)), << >>),
                      SweElement(<<"block", "Separator">>, << >>,
                          Some(Text(declaration.blockSeparator)), << >>) >>
              ELSE << >>)>>)

\* cptResult.encoding.TextEncoding of the flattened document: NoValue when
\* it is None, else its tokenSeparator and blockSeparator
TextEncodingOf(encoding_value) ==
    LET text_encoding == Get(encoding_value.items, <<"Text", "Encoding">>)
    IN  IF text_encoding.kind = "dict"
        THEN Some([tokenSeparator |->
                       Get(text_encoding.items, <<"token", "Separator">>).text[1][1],
                   blockSeparator |->
                       Get(text_encoding.items, <<"block", "Separator">>).text[1][1]])
        ELSE NoValue

\* the text of a numeric block holding rows; terminated: every row is
\* followed by the block separator, otherwise the separator stands between
\* rows only
WriteBlock(rows, encoding, terminated) ==
    LET texts == [i \in 1..Len(rows) |->
                     Join([j \in 1..Len(rows[i]) |-> <<rows[i][j]>>],
                          TokenSeparator(encoding))]
    IN  IF terminated
        THEN Concat([i \in 1..Len(rows) |->
                        texts[i] \o <<BlockSeparator(encoding)>>])
        ELSE Join(texts, BlockSeparator(encoding))

XmlDocument(rows, terminated, parameters, voc, declaration) ==
    [verticalDatum            |-> voc.verticalDatum,
     coordinateTransformation |-> voc.coordinateTransformation,
     cptMethod                |-> voc.cptMethod,
     stopCriterion            |-> voc.stopCriterion,
     offset                   |-> "1.5",
     pos                      |-> <<"1000.0", "2000.0">>,
     keys                     |-> CPT_O_KEYS,
     conePenetrometer         |-> voc.conePenetrometer,
     parameters               |-> parameters,
     encoding                 |->
         TextEncodingOf(ParseXmlToDict(EncodingElement(declaration))),
     values                   |->
         WriteBlock(rows, DeclaredEncoding(declaration), terminated)]

NotCalled == [status |-> "none"]

InitTables ==
    /\ zid_codes = zid_codes_initial
    /\ xyid_codes = xyid_codes_initial
    /\ stop_criteria = stop_criteria_initial
    /\ cpt_method = cpt_method_initial

XmlIdle ==
    /\ xml_src = NoValue
    /\ xml_doc = NoValue
    /\ gef_out = NotCalled
    /\ cpt_out = NotCalled

TemplateIdle ==
    /\ skeleton = NoValue
    /\ tpl_data = NoValue
    /\ tpl_out = NotCalled

GefIdle ==
    /\ cpt_record = NoValue
    /\ imbro_out = NotCalled
    /\ parsed = NoValue
    /\ xml_tree = NoValue

FacadeIdle ==
    /\ memo = << >>
    /\ calls = 0
    /\ facade_out = NotCalled

FilterIdle ==
    /\ cpt_params = NoValue
    /\ raw_dict = NoValue

InitXml ==
    /\ pc = "start"
    /\ InitTables
    /\ \E rows \in RowSequences, terminated \in BOOLEAN,
          parameters \in ParameterLists, voc \in Vocabularies,
          declaration \in Declarations :
          /\ xml_src = [rows |-> rows, terminated |-> terminated,
                        declaration |-> declaration]
          /\ xml_doc = XmlDocument(rows, terminated, parameters, voc,
                                   declaration)
    /\ gef_out = NotCalled
    /\ cpt_out = NotCalled
    /\ TemplateIdle
    /\ GefIdle
    /\ FacadeIdle
    /\ FilterIdle

NextXml == ConvertToGef \/ ConvertXmlDictToCptDict

SpecXml == InitXml /\ [][NextXml]_vars

-----------------------------------------------------------------------------
(* The template engine on the skeletons and data objects of the model *)

BuildFromTemplate ==
    /\ pc = "template"
    /\ pc' = "template_done"
    /\ LET template == ParseXmlTemplate(skeleton)
           filled   == ReformatUsingTemplate(tpl_data, template)
       IN  tpl_out' = IF FillFailed(filled[1].val.value)
                      THEN [status |-> "AttributeError"]
                      ELSE [status   |-> "ok",
                            template |-> template,
                            filled   |-> filled,
                            tree     |-> BuildXml(filled)]
    /\ UNCHANGED <<table_vars, xml_vars, skeleton, tpl_data, gef_vars,
                   facade_vars, filter_vars>>

SkeletonNsmap == (None :> BRO_NAMESPACE) @@ ("cptcommon" :> "urn:cptcommon")

ChildTags ==
    {Tag(BRO_NAMESPACE, <<"a">>), Tag(BRO_NAMESPACE, <<"b">>),
     Tag("urn:cptcommon", <<"a">>)}

GrandChildNames ==
    {<< >>, <<<<"c">>, <<"d">>>>, <<<<"d">>, <<"c">>>>, <<<<"c">>, <<"c">>>>}

SkeletonLeaf(name) ==
    Element(Tag(BRO_NAMESPACE, name), SkeletonNsmap, Some(Text("default")), << >>)

\* the namespaces in scope under a child that declares the prefix swe
DeclaringNsmap == SkeletonNsmap @@ ("swe" :> "http://www.opengis.net/swe/2.0")

\* the namespaces in scope under a child that redeclares cptcommon
RedeclaringNsmap == (None :> BRO_NAMESPACE) @@ ("cptcommon" :> "urn:cptcommon:2")

\* a child that changes the namespaces in scope, with one child of its own
ScopedChild(nsmap) ==
    Element(Tag(BRO_NAMESPACE, <<"b">>), nsmap, NoValue,
            <<Element(Tag(BRO_NAMESPACE, <<"c">>), nsmap, Some(Text("default")),
                      << >>)>>)

SkeletonChildren ==
    {Element(tag, SkeletonNsmap, IF names = << >> THEN Some(Text("default")) ELSE NoValue,
             [i \in 1..Len(names) |-> SkeletonLeaf(names[i])]) :
        tag \in ChildTags, names \in GrandChildNames}
    \cup {ScopedChild(DeclaringNsmap), ScopedChild(RedeclaringNsmap)}

MaxChildren == 2

Skeletons ==
    {Element(Tag(BRO_NAMESPACE, <<"root">>), SkeletonNsmap, NoValue, children) :
        children \in SeqUpTo(SkeletonChildren, MaxChildren)}

Scalar(text) == TextValue(text)

Item(key, val) == [key |-> key, val |-> val]

DataValues ==
    {Scalar(Some(Text("v"))), Scalar(NoValue),
     DictValue(<<Item(<<"c">>, Scalar(Some(Text("w"))))>>),
     DictValue(<<Item(<<"d">>, Scalar(Some(Text("w")))), Item(<<"c">>, Scalar(NoValue))>>)}

DataObjects ==
    {<< >>}
    \cup {<<Item(k, v)>> : k \in {<<"a">>, <<"b">>}, v \in DataValues}
    \cup {<<Item(k[1], v1), Item(k[2], v2)>> :
            k \in {<<<<"a">>, <<"b">>>>, <<<<"b">>, <<"a">>>>},
            v1 \in DataValues, v2 \in DataValues}

InitTemplate ==
    /\ pc = "template"
    /\ InitTables
    /\ XmlIdle
    /\ skeleton \in Skeletons
    /\ tpl_data \in DataObjects
    /\ tpl_out = NotCalled
    /\ GefIdle
    /\ FacadeIdle
    /\ FilterIdle

NextTemplate == BuildFromTemplate

SpecTemplate == InitTemplate /\ [][NextTemplate]_vars

-----------------------------------------------------------------------------
(* GEF -> XML on the CPT records of the model *)

ImbroNsmap == (None :> BRO_NAMESPACE) @@ ("cptcommon" :> "urn:cptcommon")

Leaf(name, default) ==
    Element(Tag(BRO_NAMESPACE, name), ImbroNsmap, Some(Text(default)), << >>)

Branch(name, children) ==
    Element(Tag(BRO_NAMESPACE, name), ImbroNsmap, NoValue, children)

\* template_imbro.xml: the skeleton of a BRO CPT document.  It names every
\* key of the data object, and elements the mapper never fills
ImbroSkeleton ==
    Branch(<<"CPT">>,
      << Leaf(<<"bro", "Id">>, "MISSING_VALUE"),
         Leaf(<<"quality", "Regime">>, "IMBRO"),
         Leaf(<<"cpt", "Standard">>, "onbekend"),
         Branch(<<"research", "Report", "Date">>,
             <<Leaf(<<"date">>, "MISSING_VALUE")>>),
         Branch(<<"delivered", "Location">>,
             << Branch(<<"location">>, <<Leaf(<<"pos">>, "MISSING_VALUE")>>),
                Branch(<<"horizontal", "Positioning", "Date">>,
                    <<Leaf(<<"date">>, "MISSING_VALUE")>>) >>),
         Branch(<<"delivered", "Vertical", "Position">>,
             << Leaf(<<"local", "Vertical", "Reference", "Point">>, "maaiveld"),
                Leaf(<<"offset">>, "MISSING_VALUE"),
                Leaf(<<"vertical", "Datum">>, "NAP"),
                Branch(<<"vertical", "Positioning", "Date">>,
                    <<Leaf(<<"date">>, "MISSING_VALUE")>>) >>),
         Branch(<<"registration", "History">>,
             << Leaf(<<"object", "Registration", "Time">>, "MISSING_VALUE"),
                Leaf(<<"registration", "Status">>, "MISSING_VALUE"),
                Leaf(<<"registration", "Completion", "Time">>, "MISSING_VALUE") >>),
         Branch(<<"cone", "Penetrometer", "Survey">>,
             << Leaf(<<"quality", "Class">>, "onbekend"),
                Branch(<<"trajectory">>,
                    << Leaf(<<"predrilled", "Depth">>, "MISSING_VALUE"),
                       Leaf(<<"final", "Depth">>, "MISSING_VALUE") >>),
                Branch(<<"cone", "Penetrometer">>,
                    << Leaf(<<"cone", "Penetrometer", "Type">>, "MISSING_VALUE"),
                       Leaf(<<"cone", "Surface", "Area">>, "MISSING_VALUE"),
                       Leaf(<<"cone", "Surface", "Quotient">>, "MISSING_VALUE"),
                       Leaf(<<"cone", "To", "Friction", "Sleeve", "Distance">>,
                            "MISSING_VALUE"),
                       Leaf(<<"friction", "Sleeve", "Surface", "Area">>,
                            "MISSING_VALUE"),
                       Leaf(<<"friction", "Sleeve", "Surface", "Quotient">>,
                            "MISSING_VALUE") >>),
                Branch(<<"parameters">>,
                    << Leaf(<<"penetration", "Length">>, "nee"),
                       Leaf(<<"depth">>, "nee"),
                       Leaf(<<"elapsed", "Time">>, "nee"),
                       Leaf(<<"cone", "Resistance">>, "nee"),
                       Leaf(<<"inclination", "Resultant">>, "nee"),
                       Leaf(<<"local", "Friction">>, "nee"),
                       Leaf(<<"friction", "Ratio">>, "nee"),
                       Leaf(<<"temperature">>, "nee") >>),
                Branch(<<"final", "Processing", "Date">>,
                    <<Leaf(<<"date">>, "MISSING_VALUE")>>),
                Branch(<<"cone", "Penetration", "Test">>,
                    <<Branch(<<"cpt", "Result">>,
                        <<Leaf(<<"values">>, "MISSING_VALUE")>>)>>) >>) >>)

\* GEFFile.template on template_imbro.xml
ImbroTemplate == ParseXmlTemplate(ImbroSkeleton)

ConvertToImbro ==
    /\ pc = "record"
    /\ pc' = "imbro_done"
    /\ imbro_out' = ImbroBody(cpt_record, ImbroTemplate)
    /\ UNCHANGED <<table_vars, xml_vars, tpl_vars, cpt_record, parsed, xml_tree,
                   facade_vars, filter_vars>>

\* IMBROFile._parse_xml_file on the bytes convert_to_imbro_file_content
\* returned
ParseXmlFile ==
    /\ pc = "imbro_done"
    /\ imbro_out.status = "ok"
    /\ pc' = "parsed"
    /\ parsed' = ParseXmlToDict(Reparsed(imbro_out.tree))
    /\ UNCHANGED <<table_vars, xml_vars, tpl_vars, cpt_record, imbro_out, xml_tree,
                   facade_vars, filter_vars>>

MaxSamples == 2

\* the headers of a complete record; depths in mm
AllHeaders ==
    [name |-> "CPT-1",
     gef_file_date |-> "2021-03-04",
     height_system |-> "NAP",
     fixed_horizontal_level |-> "maaiveld",
     ground_level_wrt_reference_m |-> "1.5",
     cone_type |-> "E",
     cone_tip_area |-> "1000",
     friction_sleeve_area |-> "15000",
     surface_area_quotient_tip |-> "0.8",
     surface_area_quotient_friction_sleeve |-> "1.0",
     distance_cone_to_centre_friction_sleeve |-> "80",
     excavation_depth |-> "0.5",
     corrected_depth |-> 1500,
     depth |-> 2000,
     x_y_coordinates |-> "1000.0 2000.0",
     measurement_standard |-> <<"NEN-EN-ISO 22476-1 ", " klasse2">>]

Without(headers, name) ==
    [k \in DOMAIN headers \ {name} |-> headers[k]]

\* records that lack a header, or whose measurement standard has no '/'
PartialHeaders ==
    {Without(AllHeaders, name) : name \in DOMAIN AllHeaders}
    \cup {Without(Without(AllHeaders, "cone_type"), "gef_file_date"),
          [AllHeaders EXCEPT !.measurement_standard = <<"NEN 5140">>]}

\* the samples a channel can hold, in thousandths
ChannelSamples ==
    [qc          |-> {NoValue, Some(1500)},
     fs          |-> {NoValue, Some(10)},
     Rf          |-> {NoValue, Some(20)},
     inclination |-> {NoValue, Some(500)}]

\* a channel is absent, or holds data_len samples
ChannelChoices(key, data_len) ==
    {NoValue} \cup {Some(samples) : samples \in [1..data_len -> ChannelSamples[key]]}

Present(channels) ==
    [k \in {key \in DOMAIN channels : channels[key] # NoValue} |-> channels[k][1]]

\* measurement_data with data_len samples in every channel it holds
MeasurementData(data_len) ==
    {Present([qc |-> qc, fs |-> fs, Rf |-> Rf, inclination |-> inclination]) :
        qc \in ChannelChoices("qc", data_len),
        fs \in ChannelChoices("fs", data_len),
        Rf \in ChannelChoices("Rf", data_len),
        inclination \in ChannelChoices("inclination", data_len)}

\* every measurement_data under the complete headers, the short ones under
\* the other headers, and records whose total depth is the corrected depth
CptRecords ==
    {[headers |-> AllHeaders, measurement_data |-> measurement_data] :
        measurement_data \in UNION {MeasurementData(n) : n \in 0..MaxSamples}}
    \cup {[headers |-> headers, measurement_data |-> measurement_data] :
             headers \in PartialHeaders,
             measurement_data \in MeasurementData(0) \cup MeasurementData(1)}
    \cup {[headers |-> [AllHeaders EXCEPT !.depth = AllHeaders.corrected_depth],
           measurement_data |-> [fs |-> fs]] :
             fs \in [1..MaxSamples -> ChannelSamples["fs"]]}

InitGef ==
    /\ pc = "record"
    /\ InitTables
    /\ XmlIdle
    /\ TemplateIdle
    /\ cpt_record \in CptRecords
    /\ imbro_out = NotCalled
    /\ parsed = NoValue
    /\ xml_tree = NoValue
    /\ FacadeIdle
    /\ FilterIdle

NextGef == ConvertToImbro \/ ParseXmlFile

SpecGef == InitGef /\ [][NextGef]_vars

\* both mappers, each on its own inputs
Init == InitXml \/ InitGef

Next == NextXml \/ NextGef

Spec == Init /\ [][Next]_vars

-----------------------------------------------------------------------------
(* The structural flatten on element trees *)

\* the texts of the children of a parameters element
ParameterTexts ==
    {Some(Text("ja")), Some(Text("1")), Some(Text("nee")), NoValue}

\* the children of a parameters element: with and without a namespace
ParameterChildren ==
    {Element(tag, << >>, text, << >>) :
        tag \in {Tag(BRO_NAMESPACE, <<"cone", "Resistance">>), Tag("", <<"depth">>)},
        text \in ParameterTexts}

ParametersElement(children) ==
    Element(Tag(BRO_NAMESPACE, PARAMETERS_TAG), << >>, NoValue, children)

BroIdElement(text) ==
    Element(Tag(BRO_NAMESPACE, <<"bro", "Id">>), << >>, text, << >>)

\* a parameters element at the top, or one level down next to a leaf
SurveyShapes(parameters) ==
    { <<BroIdElement(Some(Text("CPT-1"))), parameters>>,
      <<parameters, BroIdElement(NoValue)>>,
      <<Element(Tag("", <<"cone", "Penetrometer", "Survey">>), << >>, NoValue,
                <<parameters, BroIdElement(Some(Text("1")))>>)>>,
      <<BroIdElement(Some(Text("CPT-1"))), BroIdElement(Some(Text("ja")))>> }

\* the trees handed to the flatten: a root with children, and a bare leaf
ElementTrees ==
    {Element(Tag(BRO_NAMESPACE, <<"root">>), << >>, NoValue, children) :
        children \in UNION {SurveyShapes(ParametersElement(flags)) :
                               flags \in SeqUpTo(ParameterChildren, MaxChildren)}}
    \cup {BroIdElement(Some(Text("ja"))), BroIdElement(NoValue)}

\* IMBROFile._parse_xml_to_dict_recursively on an element tree
ParseXmlToDictRecursively ==
    /\ pc = "tree"
    /\ pc' = "flattened"
    /\ parsed' = ParseXmlToDict(xml_tree)
    /\ UNCHANGED <<table_vars, xml_vars, tpl_vars, cpt_record, imbro_out,
                   xml_tree, facade_vars, filter_vars>>

InitFlatten ==
    /\ pc = "tree"
    /\ InitTables
    /\ XmlIdle
    /\ TemplateIdle
    /\ cpt_record = NoValue
    /\ imbro_out = NotCalled
    /\ parsed = NoValue
    /\ xml_tree \in ElementTrees
    /\ FacadeIdle
    /\ FilterIdle

NextFlatten == ParseXmlToDictRecursively

SpecFlatten == InitFlatten /\ [][NextFlatten]_vars

-----------------------------------------------------------------------------
(* soil_layout_conversion_functions.py: get_cpt_file_content *)
(* A file name and an extension are sequences of characters.               *)

LowerChar ==
    ("A" :> "a") @@ ("E" :> "e") @@ ("F" :> "f") @@ ("G" :> "g")
    @@ ("L" :> "l") @@ ("M" :> "m") @@ ("X" :> "x")

\* str.lower()
StrLower(chars) ==
    [i \in 1..Len(chars) |->
        IF chars[i] \in DOMAIN LowerChar THEN LowerChar[chars[i]] ELSE chars[i]]

\* str.endswith(suffix)
EndsWith(chars, suffix) ==
    /\ Len(chars) >= Len(suffix)
    /\ SubSeq(chars, Len(chars) - Len(suffix) + 1, Len(chars)) = suffix

GEF_EXTENSION == <<"g", "e", "f">>

XML_EXTENSION == <<"x", "m", "l">>

\* the record the GEF parser reads from the first and the second file
StoredRecord ==
    [headers |-> AllHeaders,
     measurement_data |-> [qc |-> <<Some(1500), NoValue>>,
                           fs |-> <<Some(10), Some(10)>>]]

\* the document read from the third file
StoredDocument ==
    XmlDocument(<<<<"1.0", "0.5", "-999999", "1.5">>, <<"0.5", "1.0", "7.5", "1.5">>>>,
                TRUE,
                << <<<<"penetration", "Length">>, TRUE>>, <<<<"depth">>, TRUE>>,
                   <<<<"cone", "Resistance">>, TRUE>>,
                   <<<<"local", "Friction">>, FALSE>> >>,
                [verticalDatum |-> "Mars Datum", coordinateTransformation |-> "RD",
                 cptMethod |-> "elektrisch", stopCriterion |-> "einddiepte",
                 conePenetrometer |-> FullConePenetrometer],
                [form |-> "none"])

\* the files of the entities: what API().get_entity_file(entity_id) returns
StoredFiles ==
    << [kind |-> "gef", record |-> StoredRecord],
       [kind |-> "gef",
        record |-> [StoredRecord EXCEPT
                       !.measurement_data = [qc |-> <<Some(1500), NoValue>>]]],
       [kind |-> "xml", doc |-> StoredDocument] >>

\* GEFFile(file_content).convert_to_imbro_file_content() on a stored file
RunGefToXml(file) ==
    IF file.kind = "gef" THEN ImbroBody(file.record, ImbroTemplate)
    ELSE [status |-> "GEFParsingException"]

\* IMBROFile(file_content).convert_to_gef_file_content() on a stored file
RunXmlToGef(file) ==
    IF file.kind = "xml" THEN GefBody(file.doc)
    ELSE [status |-> "XMLSyntaxError"]

\* a body whose second test looks at the requested extension only, so that
\* the XML built from a GEF file is handed on to the XML -> GEF mapper
FacadeBody_Chained(extension, file_name, entity_id) ==
    LET file   == StoredFiles[entity_id]
        is_gef == EndsWith(StrLower(file_name), GEF_EXTENSION)
        to_xml == is_gef /\ StrLower(extension) = XML_EXTENSION
        imbro  == RunGefToXml(file)
    IN  IF to_xml /\ imbro.status # "ok"
        THEN [status |-> imbro.status, trace |-> <<"get_entity_file", "GEFFile">>]
        ELSE IF to_xml
        THEN [status |-> "IndexError",
              trace  |-> <<"get_entity_file", "GEFFile", "IMBROFile">>]
        ELSE [status |-> "ok",
              trace  |-> <<"get_entity_file">>,
              file_content |->
                  [kind     |-> "stored",
                   entity   |-> entity_id,
                   encoding |-> IF is_gef THEN "ISO-8859-1" ELSE "binary"]]

\* the body of get_cpt_file_content: trace lists the collaborators called
FacadeBody(extension, file_name, entity_id) ==
    LET file    == StoredFiles[entity_id]
        is_gef  == EndsWith(StrLower(file_name), GEF_EXTENSION)
        is_xml  == EndsWith(StrLower(file_name), XML_EXTENSION)
        fetched == [kind     |-> "stored",
                    entity   |-> entity_id,
                    encoding |-> IF is_gef THEN "ISO-8859-1" ELSE "binary"]
        to_xml  == is_gef /\ StrLower(extension) = XML_EXTENSION
        to_gef  == is_xml /\ StrLower(extension) = GEF_EXTENSION
        imbro   == RunGefToXml(file)
        gef     == RunXmlToGef(file)
    IN  IF to_xml /\ imbro.status # "ok"
        THEN [status |-> imbro.status, trace |-> <<"get_entity_file", "GEFFile">>]
        ELSE IF to_gef /\ gef.status # "ok"
        THEN [status |-> gef.status,
              trace  |-> <<"get_entity_file">>
                         \o (IF to_xml THEN <<"GEFFile">> ELSE << >>)
                         \o <<"IMBROFile">>]
        ELSE [status |-> "ok",
              trace  |-> <<"get_entity_file">>
                         \o (IF to_xml THEN <<"GEFFile">> ELSE << >>)
                         \o (IF to_gef THEN <<"IMBROFile">> ELSE << >>),
              file_content |->
                  IF to_gef THEN [kind |-> "gef", headers |-> gef.headers,
                                  meta |-> gef.meta, data |-> gef.data]
                  ELSE IF to_xml THEN [kind |-> "xml", tree |-> imbro.tree]
                  ELSE fetched]

\* the tables after the lookups of XML -> GEF, when the facade runs it
TableAfterCall(table, key, extension, file_name, entity_id) ==
    IF /\ EndsWith(StrLower(file_name), XML_EXTENSION)
       /\ StrLower(extension) = GEF_EXTENSION
       /\ StoredFiles[entity_id].kind = "xml"
    THEN AfterLookup(table, key)
    ELSE table

MaxCalls == 2

Extensions ==
    {<<"x", "m", "l">>, <<"X", "M", "L">>, <<"g", "e", "f">>, <<"G", "E", "F">>,
     <<"p", "d", "f">>}

FileNames ==
    {<<"a", ".", "g", "e", "f">>, <<"A", ".", "G", "E", "F">>,
     <<"b", ".", "x", "m", "l">>, <<"c", ".", "t", "x", "t">>}

\* a call of the memoized get_cpt_file_content: a result kept for the same
\* arguments is returned without running the body; a call that raises
\* keeps nothing
GetCptFileContent ==
    /\ pc = "facade"
    /\ calls < MaxCalls
    /\ calls' = calls + 1
    /\ \E extension \in Extensions, file_name \in FileNames,
          entity_id \in DOMAIN StoredFiles :
          LET key  == <<extension, file_name, entity_id>>
              call == [extension |-> extension, file_name |-> file_name,
                       entity_id |-> entity_id]
              body == FacadeBody(extension, file_name, entity_id)
              doc  == StoredFiles[entity_id].doc
          IN  IF key \in DOMAIN memo
              THEN /\ facade_out' = [status |-> "ok", trace |-> << >>,
                                     file_content |-> memo[key], call |-> call]
                   /\ UNCHANGED <<memo, table_vars>>
              ELSE /\ facade_out' = body @@ [call |-> call]
                   /\ memo' = IF body.status = "ok"
                              THEN (key :> body.file_content) @@ memo
                              ELSE memo
                   /\ zid_codes' = TableAfterCall(zid_codes,
                          doc.verticalDatum, extension, file_name, entity_id)
                   /\ xyid_codes' = TableAfterCall(xyid_codes,
                          doc.coordinateTransformation, extension, file_name,
                          entity_id)
                   /\ cpt_method' = TableAfterCall(cpt_method,
                          doc.cptMethod, extension, file_name, entity_id)
                   /\ stop_criteria' = TableAfterCall(stop_criteria,
                          doc.stopCriterion, extension, file_name, entity_id)
    /\ UNCHANGED <<pc, xml_vars, tpl_vars, gef_vars, filter_vars>>

InitFacade ==
    /\ pc = "facade"
    /\ InitTables
    /\ XmlIdle
    /\ TemplateIdle
    /\ GefIdle
    /\ memo = << >>
    /\ calls = 0
    /\ facade_out = NotCalled
    /\ FilterIdle

NextFacade == GetCptFileContent

SpecFacade == InitFacade /\ [][NextFacade]_vars

-----------------------------------------------------------------------------
(* Reading the GEF data block back, for the properties below *)

\* the data lines of a data block: the texts in front of each newline
DataLines(data) == DropLast(Split(data, "\n"))

\* the number of true-flagged entries of a parameters list
TrueCount(parameters) ==
    Cardinality({i \in 1..Len(parameters) : parameters[i][2] = TRUE})

\* the rows of the document as fields (a field is a text of one numeral)
SourceRows ==
    [i \in 1..Len(xml_src.rows) |->
        [j \in 1..Len(xml_src.rows[i]) |-> <<xml_src.rows[i][j]>>]]

Occurrences(seq, x) == Cardinality({i \in 1..Len(seq) : seq[i] = x})

IsPermutation(s, t) ==
    /\ Len(s) = Len(t)
    /\ \A x \in Range(s) \cup Range(t) : Occurrences(s, x) = Occurrences(t, x)

GefDone == pc = "gef_done"

\* every row of the document has a field for every entry of parameters
FullWidth ==
    \A i \in 1..Len(xml_src.rows) :
        Len(xml_src.rows[i]) = Len(xml_doc.parameters)

GefOk == GefDone /\ gef_out.status = "ok"

\* a line without its last two tokens
LineBody(line) == SubSeq(line, 1, Len(line) - 2)

\* the last two tokens of a line
LineEnd(line) == SubSeq(line, Len(line) - 1, Len(line))

\* a true-flagged parameter whose de-camel-cased name is in no registry entry
HasUnknownColumn(parameters) ==
    \E i \in 1..Len(parameters) :
        /\ parameters[i][2] = TRUE
        /\ \A k \in 1..Len(databloc_cols_def) :
              databloc_cols_def[k].description # undo_camelcase(parameters[i][1])

-----------------------------------------------------------------------------
(* Claims about XML -> GEF *)

\* C1: for a numeric block holding N data rows, with or without a trailing
\* block separator, the conversion emits exactly N data lines and LASTSCAN
\* is N.
C1_RowCountAndLastscan ==
    GefOk =>
        /\ Len(DataLines(gef_out.data)) = Len(xml_src.rows)
        /\ gef_out.meta.LASTSCAN = Len(xml_src.rows)

\* C2: the emitted rows are in non-decreasing order of the first field of
\* the XML row they come from, and they are a permutation of the rows of the
\* document: none dropped, none duplicated.
C2_SortedPermutation ==
    GefOk =>
        /\ \A i \in 1..(Len(gef_out.rows) - 1) :
              Float(gef_out.rows[i][1]) <= Float(gef_out.rows[i + 1][1])
        /\ IsPermutation(gef_out.rows, SourceRows)

\* the code each table lists for a key, and the fallback for any other key
ExpectedCode(initial, key) ==
    IF key \in DOMAIN initial THEN initial[key] ELSE "-"

\* C4: a code table lookup returns a code for every key, listed or not, None
\* included; an unlisted key gives "-" and the conversion goes on with it in
\* the ZID, XYID, method and stop-criterion header lines.
C4_LookupTotal ==
    GefDone =>
        /\ gef_out.status \in {"ok", "IndexError"}
        /\ (~HasUnknownColumn(xml_doc.parameters) /\ FullWidth)
               => gef_out.status = "ok"
        /\ gef_out.status = "ok" =>
              /\ gef_out.headers.ZID[1] =
                     ExpectedCode(zid_codes_initial, xml_doc.verticalDatum)
              /\ gef_out.headers.XYID[1] =
                     ExpectedCode(xyid_codes_initial,
                                  xml_doc.coordinateTransformation)
              /\ gef_out.headers.METHOD[2] =
                     ExpectedCode(cpt_method_initial, xml_doc.cptMethod)
              /\ gef_out.headers.STOP[2] =
                     ExpectedCode(stop_criteria_initial, xml_doc.stopCriterion)

C4_Witness ==
    /\ GefOk
    /\ xml_doc.verticalDatum = None
    /\ xml_doc.coordinateTransformation \notin DOMAIN xyid_codes_initial
    /\ xml_doc.stopCriterion \notin DOMAIN stop_criteria_initial
    /\ gef_out.headers.ZID[1] = "-"
    /\ gef_out.headers.STOP[2] = "-"

\* the fields of a data line: the numerals in front of the line's end
FieldCount(line) ==
    Cardinality({i \in 1..Len(LineBody(line)) :
                    LineBody(line)[i] \in DOMAIN FloatTable})

\* C7: the COLUMN value is the number of true-flagged parameters, COLUMNINFO
\* has that many entries and every data row has that many fields in front of
\* its terminator.
C7_ColumnCount ==
    GefOk =>
        LET k == TrueCount(xml_doc.parameters)
        IN  /\ gef_out.meta.COLUMN = k
            /\ Len(gef_out.meta.COLUMNINFO) = k
            /\ \A i \in 1..Len(DataLines(gef_out.data)) :
                  FieldCount(DataLines(gef_out.data)[i]) = k

C7_Witness ==
    /\ GefOk
    /\ TrueCount(xml_doc.parameters) = 2
    /\ xml_doc.parameters[4][2] = FALSE
    /\ Len(DataLines(gef_out.data)) >= 2

\* the fields the i-th data row is written from
SelectedFields(i) ==
    [j \in 1..Len(gef_out.columns) |-> gef_out.rows[i][gef_out.columns[j] + 1]]

\* every data line is its selected fields with sep between them, then ";!"
RowsSeparatedBy(sep) ==
    \A i \in 1..Len(DataLines(gef_out.data)) :
        LET line == DataLines(gef_out.data)[i]
        IN  /\ Len(line) >= 2
            /\ LineEnd(line) = <<";", "!">>
            /\ gef_out.columns # << >> =>
                  Split(LineBody(line), sep) = SelectedFields(i)

C9_UnknownColumnError ==
    GefDone =>
        /\ HasUnknownColumn(xml_doc.parameters) =>
              gef_out = [status |-> "UnknownColumnError"]
        /\ ~HasUnknownColumn(xml_doc.parameters) => gef_out.status = "ok"

-----------------------------------------------------------------------------
(* Claims about the template engine *)

TagsOf(children) == [i \in 1..Len(children) |-> children[i].tag]

\* the first child of elem with the local name key, as the fill matches it
FirstNamed(elem, key) ==
    elem.children[CHOOSE i \in 1..Len(elem.children) :
        /\ LocalName(elem.children[i].tag) = key
        /\ \A j \in 1..(i - 1) : LocalName(elem.children[j].tag) # key]

RECURSIVE InSchema(_, _)
\* the data object names only elements of the skeleton: a dictionary where
\* the element has children, a scalar where it has none
InSchema(data_items, elem) ==
    \A i \in 1..Len(data_items) :
        /\ \E j \in 1..Len(elem.children) :
              LocalName(elem.children[j].tag) = data_items[i].key
        /\ LET child == FirstNamed(elem, data_items[i].key)
           IN  IF data_items[i].val.kind = "dict"
               THEN /\ child.children # << >>
                    /\ InSchema(data_items[i].val.items, child)
               ELSE child.children = << >>

RECURSIVE SameChildOrder(_, _)
\* under every element of built, the child tags are those of the same
\* element of the skeleton, in the same order
SameChildOrder(built, elem) ==
    /\ TagsOf(built.children) = TagsOf(elem.children)
    /\ \A i \in 1..Len(elem.children) :
          SameChildOrder(built.children[i], elem.children[i])

RECURSIVE DistinctSiblings(_)
\* no two children of an element carry the same tag
DistinctSiblings(elem) ==
    /\ \A i, j \in 1..Len(elem.children) :
          i # j => elem.children[i].tag # elem.children[j].tag
    /\ \A i \in 1..Len(elem.children) : DistinctSiblings(elem.children[i])

TemplateDone == pc = "template_done"

-----------------------------------------------------------------------------
(* Reading the XML produced by GEF -> XML *)

\* the rows of a numeric block written by GEF -> XML, as fields
BlockRows(values) ==
    LET rows == DropLast(Split(values, ";"))
    IN  [i \in 1..Len(rows) |-> Split(rows[i], ",")]

\* the 0-based column of the numeric block a channel is written to
ChannelColumn ==
    [qc          |-> CONE_RESISTANCE_COLUMN,
     inclination |-> INCLINATION_COLUMN,
     fs          |-> LOCAL_FRICTION_COLUMN,
     Rf          |-> FRICTION_RATIO_COLUMN]

ImbroOk == pc \in {"imbro_done", "parsed"} /\ imbro_out.status = "ok"

CptOk == pc = "cpt_done" /\ cpt_out.status = "ok"

\* the values a conversion would compute from the sentinel
SentinelDerived ==
    {Some(MISSING), Some(Float(<<xml_doc.offset>>) - MISSING),
     Some(MISSING \div 100)}

\* C3 (a): GEF -> XML writes every None sample of a channel as -999999
NoneWrittenAsSentinel ==
    ImbroOk =>
        LET rows == BlockRows(imbro_out.values)
        IN  \A k \in DOMAIN cpt_record.measurement_data \cap DOMAIN ChannelColumn :
                \A i \in 1..Len(cpt_record.measurement_data[k]) :
                    cpt_record.measurement_data[k][i] = NoValue
                        => rows[i][ChannelColumn[k] + 1] = Text(SENTINEL)

\* C3 (b): convert_xml_dict_to_cpt_dict turns every field -999999 into None
\* and no sample is the sentinel or a value computed from it
SentinelReadAsNone ==
    CptOk =>
        /\ \A key \in MappedKeys(xml_doc.parameters) :
               \A i \in 1..Len(cpt_out.rows) :
                   cpt_out.rows[i][MappedColumn(xml_doc.parameters, key) + 1]
                           = Text(SENTINEL)
                       => cpt_out.measurement_data[key][i] = NoValue
        /\ \A key \in Range(MappingKeys) :
               \A i \in 1..Len(cpt_out.measurement_data[key]) :
                   cpt_out.measurement_data[key][i] \notin SentinelDerived

\* C3: missing samples are translated at both boundaries: None is written as
\* the literal -999999 into the XML numeric block by GEF -> XML, and a field
\* -999999 of the XML numeric block becomes None in the channel produced by
\* convert_xml_dict_to_cpt_dict, never the number -999999.0 nor a value
\* computed from it
C3_SentinelBothBoundaries == NoneWrittenAsSentinel /\ SentinelReadAsNone

\* a record with a None sample has been written, or a document with a
\* sentinel field in a mapped column has been read
C3_Witness ==
    \/ /\ ImbroOk
       /\ \E k \in DOMAIN cpt_record.measurement_data :
              \E i \in 1..Len(cpt_record.measurement_data[k]) :
                  /\ cpt_record.measurement_data[k][i] = NoValue
                  /\ \E j \in 1..Len(cpt_record.measurement_data[k]) :
                         cpt_record.measurement_data[k][j] # NoValue
    \/ /\ CptOk
       /\ \E key \in MappedKeys(xml_doc.parameters) \ {"elevation", "corrected_depth"} :
              \E i \in 1..Len(cpt_out.rows) :
                  cpt_out.rows[i][MappedColumn(xml_doc.parameters, key) + 1]
                      = Text(SENTINEL)

\* a valid record: every header the mapper reads, a measurement standard of
\* at most two parts, channels of one length
ValidRecord ==
    /\ MissingHeaders(cpt_record.headers) = {}
    /\ "depth" \in DOMAIN cpt_record.headers
    /\ "measurement_standard" \in DOMAIN cpt_record.headers
           => Len(cpt_record.headers.measurement_standard) <= 2
    /\ \A k, l \in DOMAIN cpt_record.measurement_data :
           Len(cpt_record.measurement_data[k]) = Len(cpt_record.measurement_data[l])

\* the number of samples of the record
SampleCount ==
    IF DOMAIN cpt_record.measurement_data = {} THEN 0
    ELSE Len(cpt_record.measurement_data[
                 CHOOSE k \in DOMAIN cpt_record.measurement_data : TRUE])

ChannelParameter ==
    [qc          |-> <<"cone", "Resistance">>,
     inclination |-> <<"inclination", "Resultant">>,
     fs          |-> <<"local", "Friction">>,
     Rf          |-> <<"friction", "Ratio">>]

\* the parameters list of the dictionary read back
ParsedParameters ==
    Get(Get(parsed.items, <<"cone", "Penetrometer", "Survey">>).items,
        <<"parameters">>).items

\* the numeric block of the dictionary read back
ParsedValues ==
    Get(Get(Get(Get(parsed.items, <<"cone", "Penetrometer", "Survey">>).items,
                <<"cone", "Penetration", "Test">>).items,
            <<"cpt", "Result">>).items,
        <<"values">>).text

TrueFlagged(parameters) ==
    {parameters[i][1] : i \in {j \in 1..Len(parameters) : parameters[j][2] = TRUE}}

NonEmptyChannels ==
    {k \in DOMAIN cpt_record.measurement_data :
        cpt_record.measurement_data[k] # << >>}

\* the flags of the channel parameters and the row count read back equal
\* the non-empty channels and the sample count of the record
ReadBackMatches ==
    /\ TrueFlagged(ParsedParameters)
           \cap {ChannelParameter[k] : k \in DOMAIN ChannelParameter}
           = {ChannelParameter[k] : k \in NonEmptyChannels}
    /\ Len(DropLast(Split(IF ParsedValues = NoValue THEN EmptyText
                          ELSE ParsedValues[1], ";"))) = SampleCount

\* C6: round trip GEF -> XML -> parse: every valid record is converted, and
\* re-parsing the XML yields a parameters list whose true-flagged channel
\* entries are exactly the non-empty channels of the record, and a numeric
\* block with as many rows as the record has samples
C6_RoundTrip ==
    /\ (pc = "imbro_done" /\ ValidRecord) => imbro_out.status = "ok"
    /\ pc = "parsed" => ReadBackMatches

-----------------------------------------------------------------------------
(* The facade *)

FacadeCalled == pc = "facade" /\ facade_out.status # "none"

\* the format a file name stands for: its suffix, lower-cased
SourceFormat(file_name) ==
    IF EndsWith(StrLower(file_name), GEF_EXTENSION) THEN "gef"
    ELSE IF EndsWith(StrLower(file_name), XML_EXTENSION) THEN "xml"
    ELSE "other"

\* the format an extension asks for
TargetFormat(extension) ==
    IF StrLower(extension) = GEF_EXTENSION THEN "gef"
    ELSE IF StrLower(extension) = XML_EXTENSION THEN "xml"
    ELSE "other"

\* neither gef -> xml nor xml -> gef, nor a request for the stored format
UnsupportedPair(call) ==
    LET source == SourceFormat(call.file_name)
        target == TargetFormat(call.extension)
    IN  source = "other" \/ target = "other"

\* C10: a call of get_cpt_file_content for a pair of formats other than
\* gef -> xml and xml -> gef fails with UnsupportedConversionError before any
\* work is done, and returns no content
C10_UnsupportedPairRejected ==
    (FacadeCalled /\ UnsupportedPair(facade_out.call)) =>
        /\ facade_out.status = "UnsupportedConversionError"
        /\ facade_out.trace = << >>

-----------------------------------------------------------------------------
(* GEF -> XML: headers, flags, numeric block and time stamps *)

ImbroDone == pc \in {"imbro_done", "parsed"}

\* the headers the mapping reads from the record
RequiredHeaders == Range(HeadersRead) \cup {"depth"}

AbsentHeaders == RequiredHeaders \ DOMAIN cpt_record.headers

\* C11: when a header the mapping reads is absent from the record,
\* convert_to_imbro_file_content aborts with the missing-field error
\* (UserException) that names the header, and returns no XML
C11_MissingHeaderNamed ==
    (ImbroDone /\ AbsentHeaders # {}) =>
        /\ imbro_out.status = "UserException"
        /\ imbro_out.missing \in AbsentHeaders

\* the text under a key of the dictionary 'parameters' of the data object
FlagWritten(name) ==
    Get(Get(Get(imbro_out.data, SURVEY).items, <<"parameters">>).items,
        name).text

\* C13: the flag written for a channel parameter is 'ja' if and only if its
\* channel is present in measurement_data and holds a sample, else 'nee';
\* the flags of depth and penetrationLength are one of the two
C13_FlagIffNonEmptyChannel ==
    ImbroOk =>
        /\ \A k \in DOMAIN ChannelParameter :
               FlagWritten(ChannelParameter[k])
                   = IF k \in NonEmptyChannels THEN Some(Text("ja"))
                     ELSE Some(Text("nee"))
        /\ \A name \in {<<"depth">>, <<"penetration", "Length">>} :
               FlagWritten(name) \in {Some(Text("ja")), Some(Text("nee"))}

\* the 0-based columns a record populates
PopulatedColumns ==
    {PENETRATION_LENGTH_COLUMN, DEPTH_COLUMN}
    \cup {ChannelColumn[k] : k \in DOMAIN cpt_record.measurement_data
                                      \cap DOMAIN ChannelColumn}

\* the numeric block: one row of NUM_COLUMNS fields per sample, every row
\* closed by ';', -999999 in every column the record does not populate
BlockWellFormed(values) ==
    LET rows == BlockRows(values)
    IN  /\ Len(rows) = SampleCount
        /\ values # << >> => values[Len(values)] = ";"
        /\ \A i \in 1..Len(rows) :
               /\ Len(rows[i]) = NUM_COLUMNS
               /\ \A c \in 0..(NUM_COLUMNS - 1) \ PopulatedColumns :
                      rows[i][c + 1] = Text(SENTINEL)

\* C14: for every record, one without fs included, the numeric block has one
\* row per sample, 25 comma-joined fields per row, ';' after every row, and
\* -999999 in every column that no channel populates
C14_BlockOfEveryRecord ==
    (ImbroDone /\ ValidRecord) =>
        /\ imbro_out.status = "ok"
        /\ BlockWellFormed(imbro_out.values)

DigitTokens == Range(Digits)

\* YYYY-MM-DDTHH:MM:SS+HH:MM, one token per character
TimestampShape(text) ==
    /\ Len(text) = 25
    /\ text[5] = "-" /\ text[8] = "-" /\ text[11] = "T"
    /\ text[14] = ":" /\ text[17] = ":"
    /\ text[20] \in {"+", "-"}
    /\ text[23] = ":"
    /\ \A i \in (1..25) \ {5, 8, 11, 14, 17, 20, 23} : text[i] \in DigitTokens

\* the text under a key of registrationHistory of the data object
RegistrationText(name) ==
    Get(Get(imbro_out.data, <<"registration", "History">>).items, name).text[1]

\* C15: objectRegistrationTime and registrationCompletionTime have the
\* shape YYYY-MM-DDTHH:MM:SS+HH:MM (or -HH:MM)
C15_TimestampShape ==
    ImbroOk =>
        /\ TimestampShape(RegistrationText(<<"object", "Registration", "Time">>))
        /\ TimestampShape(RegistrationText(<<"registration", "Completion", "Time">>))

-----------------------------------------------------------------------------
(* XML -> GEF: failures and separators *)

\* C12: a call of XML -> GEF on a document whose structure is not the
\* expected one (here: a data row shorter than a selected column index, all
\* flagged columns being known) aborts with XmlStructureError
C12_TypedStructureError ==
    (GefDone /\ ~HasUnknownColumn(xml_doc.parameters) /\ gef_out.status # "ok")
        => gef_out.status = "XmlStructureError"

\* the rows of the numeric block, split by the separators the document
\* declares (';' and ',' without a declaration)
DeclaredRows ==
    LET encoding == DeclaredEncoding(xml_src.declaration)
        blocks   == DropLast(Split(xml_doc.values, BlockSeparator(encoding)))
    IN  [i \in 1..Len(blocks) |-> Split(blocks[i], TokenSeparator(encoding))]

\* C16: both decode paths split the numeric block into rows by the block
\* separator and rows into fields by the token separator that the encoding
\* declaration gives, and by ';' and ',' when it gives none
C16_DeclaredSeparators ==
    /\ GefOk => IsPermutation(gef_out.rows, DeclaredRows)
    /\ CptOk => IsPermutation(cpt_out.rows, DeclaredRows)

-----------------------------------------------------------------------------
(* The code tables across conversions *)

\* C18: after any XML -> GEF conversion, a lookup of an unlisted key
\* included, the four code tables hold the keys and the codes they held when
\* the module was loaded
C18_TablesReadOnly ==
    GefDone =>
        /\ zid_codes = zid_codes_initial
        /\ xyid_codes = xyid_codes_initial
        /\ cpt_method = cpt_method_initial
        /\ stop_criteria = stop_criteria_initial

\* the call just made ran XML -> GEF on a stored document
RanXmlToGef(out) ==
    /\ out # NotCalled
    /\ \E i \in 1..Len(out.trace) : out.trace[i] = "IMBROFile"
    /\ StoredFiles[out.call.entity_id].kind = "xml"

\* the GEF returned by a call holds the codes that a call run alone, on the
\* tables as loaded, writes
ReturnsAsAlone ==
    (FacadeCalled /\ facade_out.status = "ok"
        /\ facade_out.file_content.kind = "gef") =>
        LET doc     == StoredFiles[facade_out.call.entity_id].doc
            headers == facade_out.file_content.headers
        IN  /\ headers.ZID[1] = ExpectedCode(zid_codes_initial, doc.verticalDatum)
            /\ headers.XYID[1] =
                   ExpectedCode(xyid_codes_initial, doc.coordinateTransformation)
            /\ headers.METHOD[2] = ExpectedCode(cpt_method_initial, doc.cptMethod)
            /\ headers.STOP[2] =
                   ExpectedCode(stop_criteria_initial, doc.stopCriterion)

\* a call that runs XML -> GEF finds in the tables only the keys they were
\* loaded with: none that an earlier call wrote
ObservesOnlyLoadedKeys ==
    (calls' = calls + 1 /\ RanXmlToGef(facade_out')) =>
        LET doc == StoredFiles[facade_out'.call.entity_id].doc
        IN  /\ doc.verticalDatum \in DOMAIN zid_codes
                   => doc.verticalDatum \in DOMAIN zid_codes_initial
            /\ doc.coordinateTransformation \in DOMAIN xyid_codes
                   => doc.coordinateTransformation \in DOMAIN xyid_codes_initial
            /\ doc.cptMethod \in DOMAIN cpt_method
                   => doc.cptMethod \in DOMAIN cpt_method_initial
            /\ doc.stopCriterion \in DOMAIN stop_criteria
                   => doc.stopCriterion \in DOMAIN stop_criteria_initial

\* C17: conversion calls share no mutable state: every call returns what it
\* returns when run alone, and no call observes a value that another call
\* wrote
C17_CallsIndependent ==
    /\ []ReturnsAsAlone
    /\ [][ObservesOnlyLoadedKeys]_vars

-----------------------------------------------------------------------------
(* The structural flatten *)

\* the text is the token 'ja' or the token '1'
YesToken(text) == text \in {Some(Text("ja")), Some(Text("1"))}

RECURSIVE FlattenedAsStated(_)
\* the flattened value of an element: its text without children; otherwise
\* a map from the local names of the children to their values, where a
\* child named 'parameters' is the list of the pairs (local name, flag) of
\* its children in document order
FlattenedAsStated(node) ==
    IF node.children = << >> THEN TextValue(node.text)
    ELSE LET value(child) ==
                 IF LocalName(child.tag) = PARAMETERS_TAG
                 THEN ListValue([i \in 1..Len(child.children) |->
                          <<LocalName(child.children[i].tag),
                            YesToken(child.children[i].text)>>])
                 ELSE FlattenedAsStated(child)
             names == {LocalName(node.children[i].tag) :
                          i \in 1..Len(node.children)}
             last(name) == CHOOSE i \in 1..Len(node.children) :
                 /\ LocalName(node.children[i].tag) = name
                 /\ \A j \in (i + 1)..Len(node.children) :
                        LocalName(node.children[j].tag) # name
         IN  [name \in names |-> value(node.children[last(name)])]

RECURSIVE AsMap(_)
\* a flattened value with its dictionaries as functions of the keys
AsMap(value) ==
    IF value.kind = "dict"
    THEN [key \in Range(Keys(value.items)) |-> AsMap(Get(value.items, key))]
    ELSE value

Flattened == pc = "flattened"

\* C20: the flatten turns an element named 'parameters' into the list of
\* (namespace-stripped name, flag) pairs of its children in document order,
\* the flag being true iff the child's text is the token 'ja' or the token
\* '1'; any other element with children into a map from the
\* namespace-stripped child tags to the flattened children; an element
\* without children into its text
C20_FlattenAsStated ==
    Flattened => AsMap(parsed) = FlattenedAsStated(xml_tree)

-----------------------------------------------------------------------------
(* The facade: one mapper at most *)

MAPPERS == {"GEFFile", "IMBROFile"}

\* the mappers a call ran, in the order it ran them
MappersRun(out) == SelectSeq(out.trace, LAMBDA step : step \in MAPPERS)

\* C19: a call of get_cpt_file_content runs one mapper at most and ends in
\* one outcome, content or failure: GEFFile (GEF -> XML) only for a GEF file
\* name with XML requested, IMBROFile (XML -> GEF) only for an XML file name
\* with GEF requested; for a file whose format is the requested one the
\* stored content is returned as fetched and no mapper runs
C19_AtMostOneMapper ==
    FacadeCalled =>
        LET call   == facade_out.call
            source == SourceFormat(call.file_name)
            target == TargetFormat(call.extension)
            run    == MappersRun(facade_out)
        IN  /\ Len(run) <= 1
            /\ (facade_out.status = "ok") <=> ("file_content" \in DOMAIN facade_out)
            /\ run = <<"GEFFile">> => (source = "gef" /\ target = "xml")
            /\ run = <<"IMBROFile">> => (source = "xml" /\ target = "gef")
            /\ (facade_out.status = "ok" /\ facade_out.file_content.kind = "xml")
                   => (source = "gef" /\ target = "xml")
            /\ (facade_out.status = "ok" /\ facade_out.file_content.kind = "gef")
                   => (source = "xml" /\ target = "gef")
            /\ (source = target /\ source # "other") =>
                   /\ run = << >>
                   /\ facade_out.status = "ok"
                   /\ facade_out.file_content.kind = "stored"
                   /\ facade_out.file_content.entity = call.entity_id

\* XML has just been built from a stored GEF file, and an earlier call has
\* returned a stored file as it was
C19_Witness ==
    /\ FacadeCalled
    /\ facade_out.status = "ok"
    /\ facade_out.trace = <<"get_entity_file", "GEFFile">>
    /\ facade_out.file_content.kind = "xml"
    /\ \E key \in DOMAIN memo :
           /\ SourceFormat(key[2]) = TargetFormat(key[1])
           /\ memo[key].kind = "stored"

-----------------------------------------------------------------------------
(* XML -> GEF: the selection of the columns *)

RECURSIVE TruePositionsFrom(_, _)
\* the list positions (1-based) of the true-flagged parameters from
\* position i on, in list order
TruePositionsFrom(parameters, i) ==
    IF i > Len(parameters) THEN << >>
    ELSE (IF parameters[i][2] = TRUE THEN <<i>> ELSE << >>)
         \o TruePositionsFrom(parameters, i + 1)

TruePositions(parameters) == TruePositionsFrom(parameters, 1)

\* the registry entries whose description is the de-camel-cased name
RegistryEntries(tag) ==
    {k \in 1..Len(databloc_cols_def) :
        databloc_cols_def[k].description = undo_camelcase(tag)}

\* C21: the true-flagged parameters receive the column numbers 1..k in list
\* order, each COLUMNINFO entry carries id, description and unit of the
\* registry entry whose description is the de-camel-cased parameter name,
\* and the j-th field of every emitted data row is the field of the XML row
\* at the list position of the j-th true-flagged parameter
C21_ColumnSelection ==
    GefOk =>
        LET positions == TruePositions(xml_doc.parameters)
            info      == gef_out.meta.COLUMNINFO
            lines     == DataLines(gef_out.data)
        IN  /\ Len(info) = Len(positions)
            /\ \A j \in 1..Len(positions) :
                   /\ info[j].colnum = j
                   /\ \E k \in RegistryEntries(xml_doc.parameters[positions[j]][1]) :
                          /\ info[j].id = databloc_cols_def[k].id
                          /\ info[j].description = databloc_cols_def[k].description
                          /\ info[j].units = databloc_cols_def[k].units
            /\ Len(lines) = Len(gef_out.rows)
            /\ positions # << >> =>
                   \A i \in 1..Len(lines) :
                       Split(LineBody(lines[i]), ";") =
                           [j \in 1..Len(positions) |-> gef_out.rows[i][positions[j]]]

\* two rows were emitted from three selected columns, the second parameter
\* of the list left out
C21_Witness ==
    /\ GefOk
    /\ TruePositions(xml_doc.parameters) = <<1, 3, 4>>
    /\ Len(DataLines(gef_out.data)) = 2
    /\ gef_out.meta.COLUMNINFO[2].colnum = 2
    /\ gef_out.meta.COLUMNINFO[2].description = "cone resistance"

-----------------------------------------------------------------------------
(* GEF -> XML: the two depth axes of the numeric block *)

\* the fields of a column of the block are evenly spaced from 0 to total
\* (in thousandths): row i (0-based) of n holds i * total / (n - 1), printed
\* to the nearest thousandth, and the only row of a block of one holds 0
EvenlySpaced(rows, column, total) ==
    \A i \in 1..Len(rows) :
        \E v \in 0..total :
            /\ rows[i][column + 1] = Text(Format3(v))
            /\ Len(rows) = 1 => v = 0
            /\ 2 * Abs(v * (Len(rows) - 1) - (i - 1) * total) <= Len(rows) - 1

\* C22 as stated: penetration length and depth are both evenly spaced from 0
\* to the one reported total depth D (a header in mm, times 0.001)
C22_BothAxesOverTotalDepth ==
    ImbroOk =>
        LET rows == BlockRows(imbro_out.values)
        IN  \E total \in {cpt_record.headers.depth,
                          cpt_record.headers.corrected_depth} :
                /\ EvenlySpaced(rows, PENETRATION_LENGTH_COLUMN, total)
                /\ EvenlySpaced(rows, DEPTH_COLUMN, total)

\* C22 as amended: the penetration length is evenly spaced from 0 to the
\* header depth and the depth from 0 to the header corrected_depth (both in
\* mm, times 0.001); a block of one row holds 0 in both
C22_EachAxisOverItsHeader ==
    ImbroOk =>
        LET rows == BlockRows(imbro_out.values)
        IN  /\ Len(rows) = Len(cpt_record.measurement_data["fs"])
            /\ EvenlySpaced(rows, PENETRATION_LENGTH_COLUMN,
                            cpt_record.headers.depth)
            /\ EvenlySpaced(rows, DEPTH_COLUMN,
                            cpt_record.headers.corrected_depth)

\* a block of two rows whose axes end at different depths
C22_Witness ==
    /\ ImbroOk
    /\ cpt_record.headers.depth # cpt_record.headers.corrected_depth
    /\ LET rows == BlockRows(imbro_out.values)
       IN  /\ Len(rows) = 2
           /\ rows[1][PENETRATION_LENGTH_COLUMN + 1] = Text("0.000")
           /\ rows[2][PENETRATION_LENGTH_COLUMN + 1] = Text("2.000")
           /\ rows[2][DEPTH_COLUMN + 1] = Text("1.500")

-----------------------------------------------------------------------------
(* The fill of a template *)

\* the items under the root of a template or of a filled template: none
\* when the root has no children
ItemsUnderRoot(template) ==
    IF template[1].val.value.kind = "dict" THEN template[1].val.value.items
    ELSE << >>

\* the items of the root structure of the parsed skeleton
RootItems == ItemsUnderRoot(ParseXmlTemplate(skeleton))

\* a sequence without its i-th element
Dropped(seq, i) == SubSeq(seq, 1, i - 1) \o SubSeq(seq, i + 1, Len(seq))

\* the data object without its i-th key
WithoutKey(i) == Dropped(tpl_data, i)

\* the data object without the j-th key of the dictionary under its i-th key
WithoutNestedKey(i, j) ==
    [tpl_data EXCEPT ![i] =
        [key |-> tpl_data[i].key,
         val |-> DictValue(Dropped(tpl_data[i].val.items, j))]]

\* the structure the i-th key of the data object is matched with
MatchedStructure(i) ==
    LET matches == MatchingTags(RootItems, tpl_data[i].key)
    IN  RootItems[CHOOSE at \in matches : \A other \in matches : at <= other].val

\* the keys of the data object that match no tag of the root's children
UnmatchedKeys ==
    {i \in 1..Len(tpl_data) : MatchingTags(RootItems, tpl_data[i].key) = {}}

\* the keys one level down that match no tag of the template at that level
UnmatchedNestedKeys ==
    {<<i, j>> \in (1..Len(tpl_data)) \X (1..2) :
        /\ i \notin UnmatchedKeys
        /\ tpl_data[i].val.kind = "dict"
        /\ j <= Len(tpl_data[i].val.items)
        /\ \/ MatchedStructure(i).value.kind # "dict"
           \/ MatchingTags(MatchedStructure(i).value.items,
                           tpl_data[i].val.items[j].key) = {}}

\* the fill of a data object on the parsed skeleton
Filled(data_items) ==
    ReformatUsingTemplate(data_items, ParseXmlTemplate(skeleton))

\* C23: a key of the data object that matches no tag of the template at its
\* level, at the top or one level down, is skipped: the fill completes and
\* the filled tree is the one obtained from the data without that key
C23_UnmatchedKeySkipped ==
    TemplateDone =>
        /\ \A i \in UnmatchedKeys :
               /\ tpl_out.status = "ok"
               /\ tpl_out.filled = Filled(WithoutKey(i))
        /\ \A at \in UnmatchedNestedKeys :
               /\ tpl_out.status = "ok"
               /\ tpl_out.filled = Filled(WithoutNestedKey(at[1], at[2]))

RECURSIVE SameShape(_, _)
\* filled has the tags of the template in the template's order, and under
\* every tag that has children in the template the same holds
SameShape(filled_items, template_items) ==
    /\ Keys(filled_items) = Keys(template_items)
    /\ \A i \in 1..Len(template_items) :
           template_items[i].val.value.kind = "dict" =>
               /\ filled_items[i].val.value.kind = "dict"
               /\ SameShape(filled_items[i].val.value.items,
                            template_items[i].val.value.items)

\* the first tag of the template's level whose local name is the data key
NamedBy(template_items, i) ==
    {k \in 1..Len(template_items) :
        LocalName(template_items[k].key) = LocalName(template_items[i].key)}
        = {} \/ \A k \in 1..(i - 1) :
        LocalName(template_items[k].key) # LocalName(template_items[i].key)

RECURSIVE Overlaid(_, _, _)
\* every node named in data (the first tag of its level with the key as
\* local name) holds the data field, every other node the template's value
Overlaid(data_items, filled_items, template_items) ==
    \A i \in 1..Len(template_items) :
        LET name  == LocalName(template_items[i].key)
            named == HasKey(data_items, name) /\ NamedBy(template_items, i)
            field == Get(data_items, name)
        IN  IF ~named
            THEN filled_items[i].val.value = template_items[i].val.value
            ELSE IF field.kind = "dict" /\ template_items[i].val.value.kind = "dict"
            THEN /\ filled_items[i].val.value.kind = "dict"
                 /\ Overlaid(field.items, filled_items[i].val.value.items,
                             template_items[i].val.value.items)
            ELSE filled_items[i].val.value = TextValue(field.text)

\* C24: for every data object and template the fill returns a tree with the
\* tags, nesting and child order of the template; a node with children keeps
\* them, a node named in data (by local name) holds the data field and any
\* other node the template's value
C24_ShapeOfTemplate ==
    TemplateDone =>
        /\ tpl_out.status = "ok"
        /\ SameShape(ItemsUnderRoot(tpl_out.filled), RootItems)
        /\ Overlaid(tpl_data, ItemsUnderRoot(tpl_out.filled), RootItems)

-----------------------------------------------------------------------------
(* The namespace maps of a loaded skeleton *)

\* the prefixes in scope at a node and not at its parent, a prefix bound to
\* another URI by the node included
Delta(nsmap, parent_nsmap) ==
    [k \in {p \in DOMAIN nsmap :
               p \notin DOMAIN parent_nsmap \/ parent_nsmap[p] # nsmap[p]} |->
        nsmap[k]]

\* the child is the last of its siblings with its tag: the one the
\* structure kept under that tag is parsed from
LastOfTag(elem, i) ==
    \A j \in (i + 1)..Len(elem.children) :
        elem.children[j].tag # elem.children[i].tag

RECURSIVE DeltaStored(_, _)
\* every structure below the one of elem stores the delta of its node
DeltaStored(elem, structure) ==
    \A i \in 1..Len(elem.children) :
        LastOfTag(elem, i) =>
            LET child == elem.children[i]
                below == Get(structure.value.items, child.tag)
            IN  /\ below.nsmap = Delta(child.nsmap, elem.nsmap)
                /\ DeltaStored(child, below)

\* C25: every node of a loaded skeleton other than the root stores exactly
\* the prefixes in scope at the node and not in scope at its parent (a
\* redeclared prefix included), at every depth
C25_OnlyDeltaStored ==
    TemplateDone => DeltaStored(skeleton, ParseXmlTemplate(skeleton)[1].val)

-----------------------------------------------------------------------------
(* XML -> CPT record: channels and order *)

\* the rows of the document in ascending order of the depth column
RowsByDepth ==
    SortedByColumn(SourceRows, MappedColumn(xml_doc.parameters, "elevation") + 1)

\* the channels that hold a sample
PopulatedChannels ==
    {key \in DOMAIN cpt_out.measurement_data :
        cpt_out.measurement_data[key] # << >>}

\* C26: for a document with N data rows every populated channel has length
\* N, and index i of every channel holds the value taken from the i-th row
\* after sorting (a friction ratio that is computed: from the fs and qc of
\* that row)
C26_ChannelsAligned ==
    CptOk =>
        LET data == cpt_out.measurement_data
        IN  /\ \A key \in PopulatedChannels : Len(data[key]) = Len(xml_src.rows)
            /\ \A key \in PopulatedChannels \cap MappedKeys(xml_doc.parameters) :
                   \A i \in 1..Len(data[key]) :
                       data[key][i] =
                           SampleOf(key,
                               Float(RowsByDepth[i][
                                   MappedColumn(xml_doc.parameters, key) + 1]),
                               Float(<<xml_doc.offset>>))
            /\ \A key \in PopulatedChannels \ MappedKeys(xml_doc.parameters) :
                   \A i \in 1..Len(data[key]) :
                       data[key][i] = Some(Quotient(data["fs"][i][1], data["qc"][i][1]))

\* the samples of a channel that are not missing, in the order of the channel
Measured(channel) == SelectSeq(channel, LAMBDA sample : sample # NoValue)

-----------------------------------------------------------------------------
(* XML -> CPT record: the friction ratio that is not provided *)

Flagged(label) == FlaggedAt(xml_doc.parameters, label) # {}

\* cone resistance, local friction and depth are flagged, the friction
\* ratio is not, and every row has all its fields
RfNotProvided ==
    /\ pc = "cpt_done"
    /\ Flagged(<<"cone", "Resistance">>)
    /\ Flagged(<<"local", "Friction">>)
    /\ ~Flagged(<<"friction", "Ratio">>)
    /\ Flagged(<<"depth">>)
    /\ FullWidth

\* C28: with coneResistance and localFriction flagged and frictionRatio not,
\* the conversion completes for every numeric block, rows with a missing qc
\* or fs and rows with qc = 0 included, and returns Rf of the length of qc
\* and fs with Rf[i] = fs[i] / qc[i]
C28_RfComputedForEveryBlock ==
    RfNotProvided =>
        /\ cpt_out.status = "ok"
        /\ LET data == cpt_out.measurement_data
           IN  /\ Len(data["Rf"]) = Len(data["qc"])
               /\ Len(data["Rf"]) = Len(data["fs"])
               /\ \A i \in 1..Len(data["Rf"]) :
                      (data["qc"][i] \notin {NoValue, Some(0)} /\ data["fs"][i] # NoValue)
                          => data["Rf"][i] =
                                 Some(Quotient(data["fs"][i][1], data["qc"][i][1]))

-----------------------------------------------------------------------------
(* XML -> CPT record: the cone headers *)

\* C29: each of the five cone headers of the record is the number held by
\* the element of the same meaning under conePenetrometer when the document
\* has that element, and is None only when the document lacks it
C29_ConeHeadersRead ==
    CptOk =>
        \A header \in DOMAIN ConeHeaders :
            LET element == ConeHeaders[header].tested
            IN  IF element \in DOMAIN xml_doc.conePenetrometer
                THEN cpt_out.headers[header] =
                         Some(Float(<<xml_doc.conePenetrometer[element]>>))
                ELSE cpt_out.headers[header] = NoValue

-----------------------------------------------------------------------------
(* model.py: CPT.filter_nones_from_params_dict *)
(* A channel of measurement_data is a sequence of samples; None is NoValue. *)

MaxSignalRows == 2

SIGNALS == {"elevation", "qc", "Rf"}

SignalSamples == {NoValue, Some(1000), Some(2000)}

\* measurement_data mappings: channels of equal and of different lengths,
\* empty channels included
ParamsMeasurementData == [SIGNALS -> SeqUpTo(SignalSamples, MaxSignalRows)]

\* zip(*raw_dict['measurement_data'].values()) stops at the shortest channel
ZippedRows(measurement_data) ==
    LET length == CHOOSE n \in 0..MaxSignalRows + 1 :
                      /\ \A signal \in DOMAIN measurement_data :
                             n <= Len(measurement_data[signal])
                      /\ \E signal \in DOMAIN measurement_data :
                             n = Len(measurement_data[signal])
    IN  [row_index \in 1..length |->
            [signal \in DOMAIN measurement_data |->
                measurement_data[signal][row_index]]]

\* the rows for which None in items
RowsToBeRemoved(measurement_data) ==
    LET zipped == ZippedRows(measurement_data)
    IN  {row_index \in DOMAIN zipped :
            \E signal \in DOMAIN measurement_data :
                zipped[row_index][signal] = NoValue}

\* del channel[row]
Del(channel, row) ==
    SubSeq(channel, 1, row - 1) \o SubSeq(channel, row + 1, Len(channel))

\* for row in reversed(rows_to_be_removed): del every channel's row
RECURSIVE DelReversed(_, _)
DelReversed(measurement_data, rows) ==
    IF rows = {} THEN measurement_data
    ELSE LET row == CHOOSE r \in rows : \A other \in rows : other <= r
         IN  DelReversed([signal \in DOMAIN measurement_data |->
                             Del(measurement_data[signal], row)],
                         rows \ {row})

FilterNonesFromParamsDict ==
    /\ pc = "params"
    /\ pc' = "filtered"
    /\ raw_dict' = [raw_dict EXCEPT !.measurement_data =
                        DelReversed(@, RowsToBeRemoved(@))]
    /\ UNCHANGED <<table_vars, xml_vars, tpl_vars, gef_vars, facade_vars,
                   cpt_params>>

InitFilter ==
    /\ pc = "params"
    /\ InitTables
    /\ XmlIdle
    /\ TemplateIdle
    /\ GefIdle
    /\ FacadeIdle
    /\ \E measurement_data \in ParamsMeasurementData :
          /\ cpt_params = [measurement_data |-> measurement_data]
          /\ raw_dict = [measurement_data |-> measurement_data]

NextFilter == FilterNonesFromParamsDict

SpecFilter == InitFilter /\ [][NextFilter]_vars

\* the rows of the mapping that hold a None in some channel
RowsWithNone(measurement_data) ==
    {row \in 1..MaxSignalRows + 1 :
        \E signal \in DOMAIN measurement_data :
            /\ row <= Len(measurement_data[signal])
            /\ measurement_data[signal][row] = NoValue}

\* the channel without the rows given, the rest in its order
RECURSIVE WithoutRows(_, _)
WithoutRows(channel, rows) ==
    IF channel = << >> THEN << >>
    ELSE LET front == WithoutRows(SubSeq(channel, 1, Len(channel) - 1), rows)
         IN  IF Len(channel) \in rows THEN front
             ELSE Append(front, channel[Len(channel)])

\* C30: after the filter no channel holds a None: every row that held a None
\* in some channel is gone from every channel, and what remains keeps its
\* order, whatever the lengths of the channels
C30_NoRowWithNoneRemains ==
    pc = "filtered" =>
        \A signal \in SIGNALS :
            /\ \A i \in 1..Len(raw_dict.measurement_data[signal]) :
                   raw_dict.measurement_data[signal][i] # NoValue
            /\ raw_dict.measurement_data[signal] =
                   WithoutRows(cpt_params.measurement_data[signal],
                               RowsWithNone(cpt_params.measurement_data))

====
